---- MODULE Spec2Model ----
(***************************************************************************)
(* Reservation and inventory state engine of the hotel management system   *)
(* (src/hotel_system.py): rooms, guests, bookings, the two ID sequences,   *)
(* the snapshot file hotel_data.json and the menu handlers that mutate     *)
(* them.  One action per menu handler; every handler runs to completion.   *)
(*                                                                         *)
(* Amounts are whole currency units.  Dates are day ordinals of the year   *)
(* 2025 (1 = 1 January); NoDate (0) stands for Python's None in a date     *)
(* field and NoneStr for None in a string field.  orders counts the        *)
(* service orders billed so far; it only bounds the model.  What a handler *)
(* reports to the operator is given by its ...Outcome operator.            *)
(***************************************************************************)
EXTENDS Integers, Sequences, FiniteSets, TLC

VARIABLES rooms, guests, bookings, next_guest_id, next_booking_id, disk, orders

vars == <<rooms, guests, bookings, next_guest_id, next_booking_id, disk, orders>>

(***************************************************************************)
(* Bounds of the model.                                                    *)
(***************************************************************************)
MaxGuests == 2

MaxBookings == 2

MaxCharges == 1

(***************************************************************************)
(* Program constants.                                                      *)
(***************************************************************************)
GuestIdSeed == 1001

BookingIdSeed == 5001

VipThreshold == 50000

ServicePrice == 500

ServiceId == 3001

NoDate == 0

(* The staff and service ID counters as initialize_data leaves them. *)
NextStaffId == 2006

NextServiceId == 3009

NoneStr == "None"

Methods == <<"Credit Card", "Debit Card", "Net Banking", "UPI", "Cash">>

RoomTypes == <<"Standard", "Deluxe", "Suite", "Presidential">>

(***************************************************************************)
(* Inputs typed by the operator, drawn from small sets.                    *)
(***************************************************************************)
NameInputs == {"Asha", "Ravi"}

(* The first guest registered gives the name Asha, every later one Ravi. *)
NameTyped(n) == IF n = 1 THEN "Asha" ELSE "Ravi"

RoomNumberInputs == {"101", "401"}

AddRoomInputs == {"101", "501"}

MaintenanceInputs == {"401", "999"}

UpdateRoomInputs == {"101", "999"}

NewPriceInputs == {"", "16500", "x"}

NewCapacityInputs == {"", "x"}

TypeChoiceInputs == {"3", "9"}

AddPriceInputs == {"5000", "x"}

VipChoiceInputs == {"2", "3"}

AdultsInputs == {"2"}

ChildrenInputs == {"0"}

CheckInInputs == {10}

CheckOutInputs == {10, 13}

MethodChoiceInputs == {"1", "6"}

ServiceIdInputs == {3001, 9999}

(***************************************************************************)
(* Entities.                                                               *)
(***************************************************************************)
Room(room_number, room_type, price, capacity) ==
    [room_number |-> room_number, room_type |-> room_type, price |-> price,
     capacity |-> capacity, status |-> "AVAILABLE", current_guest |-> NoneStr,
     check_in_date |-> NoDate, check_out_date |-> NoDate]

Guest(guest_id, name) ==
    [guest_id |-> guest_id, name |-> name, total_stays |-> 0,
     total_spent |-> 0, vip_status |-> FALSE]

Booking(booking_id, guest_id, room_number, check_in, check_out, adults, children, total_amount) ==
    [booking_id |-> booking_id, guest_id |-> guest_id, room_number |-> room_number,
     check_in |-> check_in, check_out |-> check_out, adults |-> adults,
     children |-> children, total_amount |-> total_amount, status |-> "CONFIRMED",
     payment_status |-> "PENDING", payment_method |-> NoneStr]

(* calculate_nights counting the day of departure as a night. *)
calculate_nights_Inclusive(b) == b.check_out - b.check_in + 1

calculate_nights(b) == b.check_out - b.check_in

SeedRooms ==
    << Room("101", "Standard", 2500, 2), Room("102", "Standard", 2500, 2),
       Room("103", "Standard", 2800, 3), Room("104", "Standard", 2800, 3),
       Room("201", "Deluxe", 4500, 2), Room("202", "Deluxe", 4500, 2),
       Room("203", "Deluxe", 5000, 4), Room("301", "Suite", 8000, 2),
       Room("302", "Suite", 8500, 4), Room("401", "Presidential", 15000, 4) >>

(* The service catalog and the staff roster of initialize_data.  No handler *)
(* of the model adds a service or a staff member, so both lists and their  *)
(* two ID counters keep these values.                                      *)
Service(service_id, category, price) ==
    [service_id |-> service_id, category |-> category, price |-> price, available |-> TRUE]

SeedServices ==
    << Service(3001, "Restaurant", 500), Service(3002, "Restaurant", 800),
       Service(3003, "Restaurant", 1200), Service(3004, "Spa", 2000),
       Service(3005, "Housekeeping", 300), Service(3006, "Transport", 1500),
       Service(3007, "Fitness", 500), Service(3008, "Recreation", 400) >>

Staff(staff_id, position) == [staff_id |-> staff_id, position |-> position, status |-> "ACTIVE"]

SeedStaff ==
    << Staff(2001, "Manager"), Staff(2002, "Receptionist"), Staff(2003, "Chef"),
       Staff(2004, "Housekeeping"), Staff(2005, "Security") >>

(***************************************************************************)
(* Room methods.  Each returns the room after the call; a call made in a   *)
(* status the method does not accept leaves the room as it is.             *)
(***************************************************************************)
(* book_room with the check-out date left unset. *)
book_room_NoCheckOutDate(r, guest_name, check_in, check_out) ==
    IF r.status = "AVAILABLE"
    THEN [r EXCEPT !.status = "BOOKED", !.current_guest = guest_name, !.check_in_date = check_in]
    ELSE r

book_room(r, guest_name, check_in, check_out) ==
    IF r.status = "AVAILABLE"
    THEN [r EXCEPT !.status = "BOOKED", !.current_guest = guest_name,
                   !.check_in_date = check_in, !.check_out_date = check_out]
    ELSE r

(* Room.check_in stamping the room's check-in date with the day of *)
(* arrival.                                                       *)
room_check_in_StampsDate(r) ==
    IF r.status = "BOOKED"
    THEN [r EXCEPT !.status = "OCCUPIED", !.check_in_date = r.check_in_date + 1]
    ELSE r

room_check_in(r) ==
    IF r.status = "BOOKED" THEN [r EXCEPT !.status = "OCCUPIED"] ELSE r

(* room_check_out with the status assignment left out. *)
room_check_out_KeepsStatus(r) ==
    IF r.status = "OCCUPIED"
    THEN [r EXCEPT !.current_guest = NoneStr, !.check_in_date = NoDate, !.check_out_date = NoDate]
    ELSE r

room_check_out(r) ==
    IF r.status = "OCCUPIED"
    THEN [r EXCEPT !.status = "AVAILABLE", !.current_guest = NoneStr,
                   !.check_in_date = NoDate, !.check_out_date = NoDate]
    ELSE r

(***************************************************************************)
(* List searches: index of the first match, 0 when there is none.          *)
(***************************************************************************)
Min(S) == CHOOSE x \in S : \A y \in S : x <= y

First(S) == IF S = {} THEN 0 ELSE Min(S)

FindRoom(rs, room_number) ==
    First({i \in DOMAIN rs : rs[i].room_number = room_number})

(* The room search of new_booking without its status test. *)
FindAvailableRoom_AnyStatus(rs, room_number) == FindRoom(rs, room_number)

FindAvailableRoom(rs, room_number) ==
    First({i \in DOMAIN rs : rs[i].room_number = room_number /\ rs[i].status = "AVAILABLE"})

FindGuest(gs, guest_id) ==
    First({i \in DOMAIN gs : gs[i].guest_id = guest_id})

FindBooking(bs, booking_id) ==
    First({i \in DOMAIN bs : bs[i].booking_id = booking_id})

(* The booking search of check_in, check_out and cancel_booking without *)
(* its status test.                                                     *)
FindBookingIn_AnyStatus(bs, booking_id, statuses) == FindBooking(bs, booking_id)

FindBookingIn(bs, booking_id, statuses) ==
    First({i \in DOMAIN bs : bs[i].booking_id = booking_id /\ bs[i].status \in statuses})

(* The billing search of restaurant_services without its status test. *)
FindActiveBookingOf_AnyStatus(bs, guest_id) ==
    First({i \in DOMAIN bs : bs[i].guest_id = guest_id})

Max(S) == CHOOSE x \in S : \A y \in S : x >= y

(* The billing search of restaurant_services taking the last match. *)
FindActiveBookingOf_Last(bs, guest_id) ==
    LET S == {i \in DOMAIN bs : bs[i].guest_id = guest_id /\ bs[i].status \in {"CHECKED_IN", "CONFIRMED"}}
    IN IF S = {} THEN 0 ELSE Max(S)

FindActiveBookingOf(bs, guest_id) ==
    First({i \in DOMAIN bs : bs[i].guest_id = guest_id /\ bs[i].status \in {"CHECKED_IN", "CONFIRMED"}})

(***************************************************************************)
(* int(text) and list indexing as Python evaluates them.                   *)
(***************************************************************************)
IntTable == [s \in {"0", "1", "2", "3", "4", "5", "6"} |->
               CASE s = "0" -> 0 [] s = "1" -> 1 [] s = "2" -> 2 [] s = "3" -> 3
                 [] s = "4" -> 4 [] s = "5" -> 5 [] s = "6" -> 6]

IsInt(s) == s \in DOMAIN IntTable

FloatTable == [s \in {"5000", "16500", "20000"} |->
                 CASE s = "5000" -> 5000 [] s = "16500" -> 16500 [] s = "20000" -> 20000]

IsFloat(s) == s \in DOMAIN FloatTable

IndexOk(seq, k) == k >= 0 - Len(seq) /\ k < Len(seq)

PyIndex(seq, k) == IF k >= 0 THEN seq[k + 1] ELSE seq[Len(seq) + k + 1]

MethodChoiceOk(choice) == IsInt(choice) /\ IndexOk(Methods, IntTable[choice] - 1)

(* The method looked up at the number typed instead of one below it. *)
MethodOf_OffByOne(choice) == PyIndex(Methods, IntTable[choice])

MethodOf(choice) == PyIndex(Methods, IntTable[choice] - 1)

(***************************************************************************)
(* Snapshot store.  isoformat writes a date as year, month, day;           *)
(* fromisoformat reads it back.  None is written as null (the empty        *)
(* tuple).                                                                 *)
(***************************************************************************)
MonthDays == <<31, 28, 31, 30, 31, 30, 31, 31, 30, 31, 30, 31>>

RECURSIVE DaysBefore(_)
DaysBefore(m) == IF m <= 1 THEN 0 ELSE DaysBefore(m - 1) + MonthDays[m - 1]

MonthOf(d) == CHOOSE m \in 1..12 : DaysBefore(m) < d /\ d <= DaysBefore(m) + MonthDays[m]

isoformat(d) == <<2025, MonthOf(d), d - DaysBefore(MonthOf(d))>>

fromisoformat(t) == DaysBefore(t[2]) + t[3]

Null == <<>>

RoomToDict(r) ==
    [room_number |-> r.room_number, room_type |-> r.room_type, price |-> r.price,
     capacity |-> r.capacity, status |-> r.status, current_guest |-> r.current_guest,
     check_in_date |-> IF r.check_in_date # NoDate THEN isoformat(r.check_in_date) ELSE Null,
     check_out_date |-> IF r.check_out_date # NoDate THEN isoformat(r.check_out_date) ELSE Null]

GuestToDict(g) == g

BookingToDict(b) ==
    [b EXCEPT !.check_in = isoformat(b.check_in), !.check_out = isoformat(b.check_out)]

Snapshot(rs, gs, bs, ngid, nbid) ==
    << [rooms |-> [i \in DOMAIN rs |-> RoomToDict(rs[i])],
        guests |-> [i \in DOMAIN gs |-> GuestToDict(gs[i])],
        bookings |-> [i \in DOMAIN bs |-> BookingToDict(bs[i])],
        staff |-> SeedStaff, services |-> SeedServices,
        next_guest_id |-> ngid, next_booking_id |-> nbid,
        next_staff_id |-> NextStaffId, next_service_id |-> NextServiceId] >>

NoSnapshot == <<>>

(* RoomFromDict without the read of the check-out date. *)
RoomFromDict_NoCheckOutDate(d) ==
    [room_number |-> d.room_number, room_type |-> d.room_type, price |-> d.price,
     capacity |-> d.capacity, status |-> d.status, current_guest |-> d.current_guest,
     check_in_date |-> IF d.check_in_date # Null THEN fromisoformat(d.check_in_date) ELSE NoDate,
     check_out_date |-> NoDate]

RoomFromDict(d) ==
    [room_number |-> d.room_number, room_type |-> d.room_type, price |-> d.price,
     capacity |-> d.capacity, status |-> d.status, current_guest |-> d.current_guest,
     check_in_date |-> IF d.check_in_date # Null THEN fromisoformat(d.check_in_date) ELSE NoDate,
     check_out_date |-> IF d.check_out_date # Null THEN fromisoformat(d.check_out_date) ELSE NoDate]

BookingFromDict(d) ==
    [d EXCEPT !.check_in = fromisoformat(d.check_in), !.check_out = fromisoformat(d.check_out)]

StateOf(rs, gs, bs, st, sv, ngid, nbid, nstid, nsvid) ==
    [rooms |-> rs, guests |-> gs, bookings |-> bs, staff |-> st, services |-> sv,
     next_guest_id |-> ngid, next_booking_id |-> nbid,
     next_staff_id |-> nstid, next_service_id |-> nsvid]

State(rs, gs, bs, ngid, nbid) ==
    StateOf(rs, gs, bs, SeedStaff, SeedServices, ngid, nbid, NextStaffId, NextServiceId)

SeedState == State(SeedRooms, <<>>, <<>>, GuestIdSeed, BookingIdSeed)

(* load_data starting from empty lists when there is no snapshot file. *)
load_data_EmptyWhenMissing(d) ==
    IF d = NoSnapshot
    THEN StateOf(<<>>, <<>>, <<>>, <<>>, <<>>, GuestIdSeed, BookingIdSeed, 2001, 3001)
    ELSE StateOf([i \in DOMAIN d[1].rooms |-> RoomFromDict(d[1].rooms[i])],
                 d[1].guests,
                 [i \in DOMAIN d[1].bookings |-> BookingFromDict(d[1].bookings[i])],
                 d[1].staff, d[1].services,
                 d[1].next_guest_id, d[1].next_booking_id,
                 d[1].next_staff_id, d[1].next_service_id)

load_data(d) ==
    IF d = NoSnapshot
    THEN SeedState
    ELSE StateOf([i \in DOMAIN d[1].rooms |-> RoomFromDict(d[1].rooms[i])],
                 d[1].guests,
                 [i \in DOMAIN d[1].bookings |-> BookingFromDict(d[1].bookings[i])],
                 d[1].staff, d[1].services,
                 d[1].next_guest_id, d[1].next_booking_id,
                 d[1].next_staff_id, d[1].next_service_id)

Memory == State(rooms, guests, bookings, next_guest_id, next_booking_id)

Init ==
    /\ rooms = SeedRooms
    /\ guests = <<>>
    /\ bookings = <<>>
    /\ next_guest_id = GuestIdSeed
    /\ next_booking_id = BookingIdSeed
    /\ disk = NoSnapshot
    /\ orders = 0

(***************************************************************************)
(* save_data: the snapshot file is rewritten from the whole of memory as   *)
(* it is at the end of the handler.                                        *)
(***************************************************************************)
save_data ==
    disk' = Snapshot(rooms', guests', bookings', next_guest_id', next_booking_id')

GuestIdInputs == GuestIdSeed..(GuestIdSeed + MaxGuests)

BookingIdInputs == BookingIdSeed..(BookingIdSeed + MaxBookings)

(***************************************************************************)
(* Room management.  "Error" is an exception that leaves the handler and   *)
(* is reported by the main loop.                                           *)
(***************************************************************************)
(* add_new_room without its search for the room number. *)
AddNewRoomOutcome_NoExistsTest(room_number, type_choice, price, capacity) ==
    IF ~(IsInt(type_choice) /\ IndexOk(RoomTypes, IntTable[type_choice] - 1)) THEN "Error"
    ELSE IF ~(IsFloat(price) /\ IsInt(capacity)) THEN "InvalidInput"
    ELSE "ok"

AddNewRoomOutcome(room_number, type_choice, price, capacity) ==
    IF FindRoom(rooms, room_number) # 0 THEN "RoomExists"
    ELSE IF ~(IsInt(type_choice) /\ IndexOk(RoomTypes, IntTable[type_choice] - 1)) THEN "Error"
    ELSE IF ~(IsFloat(price) /\ IsInt(capacity)) THEN "InvalidInput"
    ELSE "ok"

add_new_room(room_number, type_choice, price, capacity) ==
    /\ UNCHANGED <<guests, bookings, next_guest_id, next_booking_id, orders>>
    /\ IF AddNewRoomOutcome(room_number, type_choice, price, capacity) = "ok"
       THEN /\ rooms' = Append(rooms, Room(room_number, PyIndex(RoomTypes, IntTable[type_choice] - 1),
                                           FloatTable[price], IntTable[capacity]))
            /\ save_data
       ELSE UNCHANGED <<rooms, disk>>

UpdateRoomOutcome(room_number, new_price, new_capacity) ==
    IF FindRoom(rooms, room_number) = 0 THEN "RoomNotFound"
    ELSE IF new_price # "" /\ ~IsFloat(new_price) THEN "Error"
    ELSE IF new_capacity # "" /\ ~IsInt(new_capacity) THEN "Error"
    ELSE "ok"

(* update_room_details charging the new price to the bookings that hold *)
(* the room.                                                           *)
update_room_details_Reprices(room_number, new_price, new_capacity) ==
    LET i == FindRoom(rooms, room_number)
        price_ok == new_price # "" /\ IsFloat(new_price)
        priced == IF price_ok THEN [rooms EXCEPT ![i].price = FloatTable[new_price]] ELSE rooms
    IN
    /\ UNCHANGED <<guests, next_guest_id, next_booking_id, orders>>
    /\ IF i = 0 \/ ~price_ok \/ (new_capacity # "" /\ ~IsInt(new_capacity))
       THEN UNCHANGED <<rooms, bookings, disk>>
       ELSE /\ rooms' = priced
            /\ bookings' = [b \in DOMAIN bookings |->
                               IF bookings[b].room_number = room_number
                                  /\ bookings[b].status \in {"CONFIRMED", "CHECKED_IN"}
                               THEN [bookings[b] EXCEPT !.total_amount =
                                        FloatTable[new_price] * (bookings[b].check_out - bookings[b].check_in)]
                               ELSE bookings[b]]
            /\ save_data

(* The price is assigned before the capacity is parsed, so a capacity that *)
(* does not parse leaves the handler with the new price set and not saved. *)
update_room_details(room_number, new_price, new_capacity) ==
    LET i == FindRoom(rooms, room_number)
        price_ok == new_price # "" /\ IsFloat(new_price)
        priced == IF price_ok THEN [rooms EXCEPT ![i].price = FloatTable[new_price]] ELSE rooms
    IN
    /\ UNCHANGED <<guests, bookings, next_guest_id, next_booking_id, orders>>
    /\ IF i = 0 \/ (new_price # "" /\ ~IsFloat(new_price))
       THEN UNCHANGED <<rooms, disk>>
       ELSE IF new_capacity # "" /\ ~IsInt(new_capacity)
       THEN /\ rooms' = priced
            /\ UNCHANGED disk
       ELSE /\ rooms' = IF new_capacity # ""
                         THEN [priced EXCEPT ![i].capacity = IntTable[new_capacity]]
                         ELSE priced
            /\ save_data

(* room_maintenance putting any room that is not under maintenance under *)
(* maintenance.                                                          *)
room_maintenance_AnyStatus(room_number) ==
    LET i == FindRoom(rooms, room_number) IN
    /\ UNCHANGED <<guests, bookings, next_guest_id, next_booking_id, orders>>
    /\ IF i = 0
       THEN UNCHANGED <<rooms, disk>>
       ELSE /\ rooms' = IF rooms[i].status = "MAINTENANCE"
                         THEN [rooms EXCEPT ![i].status = "AVAILABLE"]
                         ELSE [rooms EXCEPT ![i].status = "MAINTENANCE"]
            /\ save_data

MaintenanceOutcome(room_number) ==
    LET i == FindRoom(rooms, room_number) IN
    IF i = 0 THEN "RoomNotFound"
    ELSE IF rooms[i].status \in {"AVAILABLE", "MAINTENANCE"} THEN "ok"
    ELSE "CannotChangeStatus"

room_maintenance(room_number) ==
    LET i == FindRoom(rooms, room_number) IN
    /\ UNCHANGED <<guests, bookings, next_guest_id, next_booking_id, orders>>
    /\ IF i = 0
       THEN UNCHANGED <<rooms, disk>>
       ELSE /\ rooms' = IF rooms[i].status = "AVAILABLE"
                         THEN [rooms EXCEPT ![i].status = "MAINTENANCE"]
                         ELSE IF rooms[i].status = "MAINTENANCE"
                         THEN [rooms EXCEPT ![i].status = "AVAILABLE"]
                         ELSE rooms
            /\ save_data

(***************************************************************************)
(* Guest management.                                                       *)
(***************************************************************************)
(* register_guest without the advance of the guest ID counter. *)
register_guest_NoAdvance(name) ==
    /\ guests' = Append(guests, Guest(next_guest_id, name))
    /\ UNCHANGED <<rooms, bookings, next_guest_id, next_booking_id, orders>>
    /\ save_data

register_guest(name) ==
    /\ guests' = Append(guests, Guest(next_guest_id, name))
    /\ next_guest_id' = next_guest_id + 1
    /\ UNCHANGED <<rooms, bookings, next_booking_id, orders>>
    /\ save_data

update_guest_details(guest_id) ==
    /\ UNCHANGED <<rooms, guests, bookings, next_guest_id, next_booking_id, orders>>
    /\ IF FindGuest(guests, guest_id) = 0 THEN UNCHANGED disk ELSE save_data

vip_management(choice, guest_id) ==
    LET i == FindGuest(guests, guest_id) IN
    /\ UNCHANGED <<rooms, bookings, next_guest_id, next_booking_id, orders>>
    /\ IF i = 0 \/ choice \notin {"2", "3"}
       THEN UNCHANGED <<guests, disk>>
       ELSE /\ guests' = [guests EXCEPT ![i].vip_status = (choice = "2")]
            /\ save_data

(***************************************************************************)
(* Booking management.                                                     *)
(***************************************************************************)
(* The date prompt accepting a check-out on the day of the check-in. *)
DateRangeAccepted_Inclusive(check_in, check_out) == check_out >= check_in

DateRangeAccepted(check_in, check_out) == check_out > check_in

(* The discount taken as 1% instead of 10%. *)
VipDiscount_OnePercent(total_amount) == total_amount \div 100

VipDiscount(total_amount) == (total_amount * 10) \div 100

BookingAmount(price, nights, vip_status) ==
    IF vip_status
    THEN price * nights - VipDiscount(price * nights)
    ELSE price * nights

(* Guest ID 0 runs register_guest (with its own save) first and books for  *)
(* the guest just registered.                                              *)
GuestsAtBooking(guest_id, name) ==
    IF guest_id = 0 THEN Append(guests, Guest(next_guest_id, name)) ELSE guests

GuestIdAtBooking(guest_id) == IF guest_id = 0 THEN next_guest_id ELSE guest_id

NewBookingOutcome(guest_id, name, room_number) ==
    IF FindGuest(GuestsAtBooking(guest_id, name), GuestIdAtBooking(guest_id)) = 0 THEN "GuestNotFound"
    ELSE IF {i \in DOMAIN rooms : rooms[i].status = "AVAILABLE"} = {} THEN "RoomUnavailable"
    ELSE IF FindAvailableRoom(rooms, room_number) = 0 THEN "RoomUnavailable"
    ELSE "ok"

(* The date prompt repeats until it is given a check-out after the         *)
(* check-in, so the dates that reach the rest of the handler are an        *)
(* accepted pair.                                                          *)
new_booking(guest_id, name, check_in, check_out, room_number, adults, children) ==
    LET gs == GuestsAtBooking(guest_id, name)
        gid == GuestIdAtBooking(guest_id)
        gi == FindGuest(gs, gid)
        ri == FindAvailableRoom(rooms, room_number)
        nights == check_out - check_in
        counts == IF IsInt(adults) /\ IsInt(children)
                  THEN <<IntTable[adults], IntTable[children]>>
                  ELSE <<1, 0>>
        total_amount == BookingAmount(rooms[ri].price, nights, gs[gi].vip_status)
        booking == Booking(next_booking_id, gid, room_number, check_in, check_out,
                           counts[1], counts[2], total_amount)
    IN
    /\ DateRangeAccepted(check_in, check_out)
    /\ guests' = gs
    /\ next_guest_id' = IF guest_id = 0 THEN next_guest_id + 1 ELSE next_guest_id
    /\ UNCHANGED orders
    /\ IF NewBookingOutcome(guest_id, name, room_number) = "ok"
       THEN /\ rooms' = [rooms EXCEPT ![ri] = book_room(rooms[ri], gs[gi].name, check_in, check_out)]
            /\ bookings' = Append(bookings, booking)
            /\ next_booking_id' = next_booking_id + 1
            /\ save_data
       ELSE /\ UNCHANGED <<rooms, bookings, next_booking_id>>
            /\ IF guest_id = 0 THEN save_data ELSE UNCHANGED disk

CheckInOutcome(booking_id) ==
    LET bi == FindBookingIn(bookings, booking_id, {"CONFIRMED"}) IN
    IF bi = 0 THEN "BookingNotFound"
    ELSE IF FindRoom(rooms, bookings[bi].room_number) = 0 THEN "BookingNotFound"
    ELSE "ok"

check_in(booking_id) ==
    LET bi == FindBookingIn(bookings, booking_id, {"CONFIRMED"})
        ri == FindRoom(rooms, bookings[bi].room_number)
    IN
    /\ UNCHANGED <<guests, next_guest_id, next_booking_id, orders>>
    /\ IF CheckInOutcome(booking_id) = "ok"
       THEN /\ rooms' = [rooms EXCEPT ![ri] = room_check_in(rooms[ri])]
            /\ bookings' = [bookings EXCEPT ![bi].status = "CHECKED_IN"]
            /\ save_data
       ELSE UNCHANGED <<rooms, bookings, disk>>

(* process_payment without its test for a booking already paid. *)
PaymentOutcome_NoPaidTest(bs, booking_id, method_choice) ==
    LET i == FindBooking(bs, booking_id) IN
    IF i = 0 THEN (IF booking_id = 0 THEN "BookingNotFound" ELSE "NoMessage")
    ELSE IF ~MethodChoiceOk(method_choice) THEN "Error"
    ELSE "ok"

(* process_payment on the bookings bs: what it reports and the bookings    *)
(* afterwards.  A method choice that does not parse or index raises        *)
(* before anything is assigned.  "NoMessage": the handler returns without  *)
(* reporting anything; the test after the search is on the ID typed, not   *)
(* on the search, so only the ID 0 is reported as not found.               *)
PaymentOutcome(bs, booking_id, method_choice) ==
    LET i == FindBooking(bs, booking_id) IN
    IF i = 0 THEN (IF booking_id = 0 THEN "BookingNotFound" ELSE "NoMessage")
    ELSE IF bs[i].payment_status = "PAID" THEN "AlreadyPaid"
    ELSE IF ~MethodChoiceOk(method_choice) THEN "Error"
    ELSE "ok"

PaymentApplied(bs, booking_id, method_choice) ==
    LET i == FindBooking(bs, booking_id) IN
    IF PaymentOutcome(bs, booking_id, method_choice) = "ok"
    THEN [bs EXCEPT ![i].payment_status = "PAID", ![i].payment_method = MethodOf(method_choice)]
    ELSE bs

process_payment(booking_id, method_choice) ==
    /\ UNCHANGED <<rooms, guests, next_guest_id, next_booking_id, orders>>
    /\ bookings' = PaymentApplied(bookings, booking_id, method_choice)
    /\ IF PaymentOutcome(bookings, booking_id, method_choice) = "ok"
       THEN save_data
       ELSE UNCHANGED disk

(* The promotion test taken as "at least the threshold". *)
AutoVip_AtThreshold(g) == g.total_spent >= VipThreshold /\ ~g.vip_status

(* The promotion test applied to the first completed stay only. *)
AutoVip_FirstStayOnly(g) == g.total_spent > VipThreshold /\ ~g.vip_status /\ g.total_stays = 1

AutoVip(g) == g.total_spent > VipThreshold /\ ~g.vip_status

(* The guest update of check_out without the total_spent line. *)
GuestAfterStay_NoSpend(g, total_amount) ==
    LET counted == [g EXCEPT !.total_stays = g.total_stays + 1]
    IN IF AutoVip(counted) THEN [counted EXCEPT !.vip_status = TRUE] ELSE counted

(* The guest update of check_out with the VIP flag assigned from the *)
(* threshold test instead of only raised by it.                     *)
GuestAfterStay_Reassess(g, total_amount) ==
    [g EXCEPT !.total_stays = g.total_stays + 1,
              !.total_spent = g.total_spent + total_amount,
              !.vip_status = g.total_spent + total_amount > VipThreshold]

(* The guest update of check_out assigning the counters from the stay *)
(* instead of adding to them.                                        *)
GuestAfterStay_Resets(g, total_amount) ==
    LET counted == [g EXCEPT !.total_stays = 1, !.total_spent = total_amount]
    IN IF AutoVip(counted) THEN [counted EXCEPT !.vip_status = TRUE] ELSE counted

(* The guest update of check_out without the total_stays line. *)
GuestAfterStay_NoCount(g, total_amount) ==
    LET counted == [g EXCEPT !.total_spent = g.total_spent + total_amount]
    IN IF AutoVip(counted) THEN [counted EXCEPT !.vip_status = TRUE] ELSE counted

GuestAfterStay(g, total_amount) ==
    LET counted == [g EXCEPT !.total_stays = g.total_stays + 1,
                             !.total_spent = g.total_spent + total_amount]
    IN IF AutoVip(counted) THEN [counted EXCEPT !.vip_status = TRUE] ELSE counted

CheckOutOutcome(booking_id, method_choice) ==
    LET bi == FindBookingIn(bookings, booking_id, {"CHECKED_IN"}) IN
    IF bi = 0 THEN "BookingNotFound"
    ELSE IF FindRoom(rooms, bookings[bi].room_number) = 0 THEN "BookingNotFound"
    ELSE IF bookings[bi].payment_status # "PAID"
            /\ PaymentOutcome(bookings, booking_id, method_choice) = "Error" THEN "Error"
    ELSE "ok"

(* The room, the booking and the guest are updated first; payment is       *)
(* collected last, and an exception raised there leaves the handler        *)
(* before its save.                                                        *)
check_out(booking_id, method_choice) ==
    LET bi == FindBookingIn(bookings, booking_id, {"CHECKED_IN"})
        ri == FindRoom(rooms, bookings[bi].room_number)
        gi == FindGuest(guests, bookings[bi].guest_id)
        left == [bookings EXCEPT ![bi].status = "CHECKED_OUT"]
    IN
    /\ UNCHANGED <<next_guest_id, next_booking_id, orders>>
    /\ IF CheckOutOutcome(booking_id, method_choice) = "BookingNotFound"
       THEN UNCHANGED <<rooms, guests, bookings, disk>>
       ELSE /\ rooms' = [rooms EXCEPT ![ri] = room_check_out(rooms[ri])]
            /\ guests' = IF gi = 0 THEN guests
                         ELSE [guests EXCEPT ![gi] = GuestAfterStay(guests[gi], bookings[bi].total_amount)]
            /\ bookings' = IF bookings[bi].payment_status # "PAID"
                           THEN PaymentApplied(left, booking_id, method_choice)
                           ELSE left
            /\ IF CheckOutOutcome(booking_id, method_choice) = "Error"
               THEN UNCHANGED disk
               ELSE save_data

CancelOutcome(booking_id) ==
    IF FindBookingIn(bookings, booking_id, {"CONFIRMED", "CHECKED_IN"}) = 0
    THEN "NotCancellable"
    ELSE "ok"

(* cancel_booking marking the payment REFUNDED only when it had been *)
(* PAID.                                                            *)
cancel_booking_RefundsPaidOnly(booking_id) ==
    LET bi == FindBookingIn(bookings, booking_id, {"CONFIRMED", "CHECKED_IN"})
        ri == FindRoom(rooms, bookings[bi].room_number)
    IN
    /\ UNCHANGED <<guests, next_guest_id, next_booking_id, orders>>
    /\ IF CancelOutcome(booking_id) = "ok"
       THEN /\ rooms' = IF ri = 0 THEN rooms
                        ELSE [rooms EXCEPT ![ri].status = "AVAILABLE", ![ri].current_guest = NoneStr,
                                           ![ri].check_in_date = NoDate, ![ri].check_out_date = NoDate]
            /\ bookings' = IF bookings[bi].payment_status = "PAID"
                           THEN [bookings EXCEPT ![bi].status = "CANCELLED", ![bi].payment_status = "REFUNDED"]
                           ELSE [bookings EXCEPT ![bi].status = "CANCELLED"]
            /\ save_data
       ELSE UNCHANGED <<rooms, bookings, disk>>

(* cancel_booking taking the booking off the list. *)
cancel_booking_Deletes(booking_id) ==
    LET bi == FindBookingIn(bookings, booking_id, {"CONFIRMED", "CHECKED_IN"})
        ri == FindRoom(rooms, bookings[bi].room_number)
    IN
    /\ UNCHANGED <<guests, next_guest_id, next_booking_id, orders>>
    /\ IF CancelOutcome(booking_id) = "ok"
       THEN /\ rooms' = IF ri = 0 THEN rooms
                        ELSE [rooms EXCEPT ![ri].status = "AVAILABLE", ![ri].current_guest = NoneStr,
                                           ![ri].check_in_date = NoDate, ![ri].check_out_date = NoDate]
            /\ bookings' = SubSeq(bookings, 1, bi - 1) \o SubSeq(bookings, bi + 1, Len(bookings))
            /\ save_data
       ELSE UNCHANGED <<rooms, bookings, disk>>

cancel_booking(booking_id) ==
    LET bi == FindBookingIn(bookings, booking_id, {"CONFIRMED", "CHECKED_IN"})
        ri == FindRoom(rooms, bookings[bi].room_number)
    IN
    /\ UNCHANGED <<guests, next_guest_id, next_booking_id, orders>>
    /\ IF CancelOutcome(booking_id) = "ok"
       THEN /\ rooms' = IF ri = 0 THEN rooms
                        ELSE [rooms EXCEPT ![ri].status = "AVAILABLE", ![ri].current_guest = NoneStr,
                                           ![ri].check_in_date = NoDate, ![ri].check_out_date = NoDate]
            /\ bookings' = [bookings EXCEPT ![bi].status = "CANCELLED", ![bi].payment_status = "REFUNDED"]
            /\ save_data
       ELSE UNCHANGED <<rooms, bookings, disk>>

(***************************************************************************)
(* Services: the order is billed to the first active booking of the        *)
(* guest, if there is one.                                                 *)
(***************************************************************************)
ServiceFound(service_id) == service_id = ServiceId

ServiceOutcome(guest_id, service_id) ==
    IF FindGuest(guests, guest_id) # 0 /\ ServiceFound(service_id) THEN "ok" ELSE "NotFound"

(* restaurant_services adding the price of the order to the guest's *)
(* total_spent when it is placed.                                   *)
restaurant_services_ChargesGuest(guest_id, service_id) ==
    LET bi == FindActiveBookingOf(bookings, guest_id)
        gi == FindGuest(guests, guest_id)
    IN
    /\ UNCHANGED <<rooms, next_guest_id, next_booking_id>>
    /\ IF ServiceOutcome(guest_id, service_id) = "ok"
       THEN /\ bookings' = IF bi = 0 THEN bookings
                           ELSE [bookings EXCEPT ![bi].total_amount = @ + ServicePrice]
            /\ guests' = [guests EXCEPT ![gi].total_spent = @ + ServicePrice]
            /\ orders' = IF bi = 0 THEN orders ELSE orders + 1
            /\ save_data
       ELSE UNCHANGED <<guests, bookings, orders, disk>>

restaurant_services(guest_id, service_id) ==
    LET bi == FindActiveBookingOf(bookings, guest_id) IN
    /\ UNCHANGED <<rooms, guests, next_guest_id, next_booking_id>>
    /\ IF ServiceOutcome(guest_id, service_id) = "ok"
       THEN /\ bookings' = IF bi = 0 THEN bookings
                           ELSE [bookings EXCEPT ![bi].total_amount = @ + ServicePrice]
            /\ orders' = IF bi = 0 THEN orders ELSE orders + 1
            /\ save_data
       ELSE UNCHANGED <<bookings, orders, disk>>

(***************************************************************************)
(* The reservation engine with room inventory and guest registration.      *)
(* The bounds stop registration, booking and ordering once the model is    *)
(* full.                                                                   *)
(***************************************************************************)
AddNewRoom ==
    \E rn \in AddRoomInputs, tc \in TypeChoiceInputs, p \in AddPriceInputs :
        add_new_room(rn, tc, p, "2")

RoomMaintenance == \E rn \in MaintenanceInputs : room_maintenance(rn)

RegisterGuest ==
    \E n \in NameInputs :
        /\ Len(guests) < MaxGuests
        /\ n = NameTyped(Len(guests) + 1)
        /\ register_guest(n)

VipGuestInputs == {GuestIdSeed, GuestIdSeed + MaxGuests}

VipManagement == \E c \in VipChoiceInputs, g \in VipGuestInputs : vip_management(c, g)

NewBooking ==
    \E g \in GuestIdInputs \cup {0}, n \in NameInputs, ci \in CheckInInputs,
       co \in CheckOutInputs, rn \in RoomNumberInputs, a \in AdultsInputs, c \in ChildrenInputs :
        /\ Len(bookings) < MaxBookings
        /\ g = 0 => Len(guests) < MaxGuests
        /\ n = NameTyped(Len(guests) + 1)
        /\ new_booking(g, n, ci, co, rn, a, c)

CheckIn == \E b \in BookingIdInputs : check_in(b)

CheckOut == \E b \in BookingIdInputs, m \in MethodChoiceInputs : check_out(b, m)

CancelBooking == \E b \in BookingIdInputs : cancel_booking(b)

ProcessPayment == \E b \in BookingIdInputs, m \in MethodChoiceInputs : process_payment(b, m)

RestaurantServices ==
    \E g \in GuestIdInputs, s \in ServiceIdInputs :
        orders < MaxCharges /\ restaurant_services(g, s)

UpdateRoomDetails ==
    \E rn \in UpdateRoomInputs, p \in NewPriceInputs, c \in NewCapacityInputs :
        update_room_details(rn, p, c)

UpdateGuestDetails == \E g \in GuestIdInputs : update_guest_details(g)

Next ==
    \/ AddNewRoom
    \/ RoomMaintenance
    \/ RegisterGuest
    \/ VipManagement
    \/ NewBooking
    \/ CheckIn
    \/ CheckOut
    \/ CancelBooking
    \/ ProcessPayment
    \/ RestaurantServices

Spec == Init /\ [][Next]_vars

(***************************************************************************)
(* The same engine with the administrative handlers that edit a room's     *)
(* details and a guest's contact details.                                  *)
(***************************************************************************)
NextAll == Next \/ UpdateRoomDetails \/ UpdateGuestDetails

SpecAll == Init /\ [][NextAll]_vars

(***************************************************************************)
(* The path of a stay: registration, a change of a room's price, booking,  *)
(* check-in, service orders, check-out and the manual VIP switch, for an   *)
(* operator who uses no other menu entry.                                  *)
(***************************************************************************)
NextStay ==
    \/ RegisterGuest
    \/ UpdateRoomDetails
    \/ VipManagement
    \/ NewBooking
    \/ CheckIn
    \/ CheckOut
    \/ RestaurantServices

SpecStay == Init /\ [][NextStay]_vars

(***************************************************************************)
(* The front desk: registration, booking, check-in and cancellation.       *)
(***************************************************************************)
NextDesk ==
    \/ RegisterGuest
    \/ NewBooking
    \/ CheckIn
    \/ CancelBooking

SpecDesk == Init /\ [][NextDesk]_vars

(***************************************************************************)
(* The front desk with the cashier: payment may be taken for any booking   *)
(* at any moment.                                                          *)
(***************************************************************************)
NextPay == NextDesk \/ ProcessPayment

SpecPay == Init /\ [][NextPay]_vars

(***************************************************************************)
(* The front desk with departures: a stay from booking to check-out, with  *)
(* payment taken at check-out.                                             *)
(***************************************************************************)
NextDeparture == NextDesk \/ CheckOut

SpecDeparture == Init /\ [][NextDeparture]_vars

(***************************************************************************)
(* The front desk with room service: orders are billed to guests who hold  *)
(* bookings.                                                               *)
(***************************************************************************)
NextService == NextDesk \/ RestaurantServices

SpecService == Init /\ [][NextService]_vars

(***************************************************************************)
(* The room inventory: rooms are added and put under maintenance while     *)
(* guests register, book, check in and cancel.                             *)
(***************************************************************************)
NextRooms ==
    \/ AddNewRoom
    \/ RoomMaintenance
    \/ RegisterGuest
    \/ NewBooking
    \/ CheckIn
    \/ CancelBooking

SpecRooms == Init /\ [][NextRooms]_vars

(***************************************************************************)
(* The life of a bill: registration, booking, check-in, service orders,    *)
(* payment, check-out and cancellation, with the room's price and the      *)
(* guest's VIP flag changed by hand in between.                            *)
(***************************************************************************)
NextBilling ==
    \/ RegisterGuest
    \/ UpdateRoomDetails
    \/ VipManagement
    \/ NewBooking
    \/ CheckIn
    \/ CheckOut
    \/ CancelBooking
    \/ ProcessPayment
    \/ RestaurantServices

SpecBilling == Init /\ [][NextBilling]_vars

(***************************************************************************)
(* A returning guest: room 101 is repriced to 20000 a night, so that one   *)
(* stay of three nights takes the guest above the VIP threshold, and the   *)
(* operator switches the VIP flag by hand between the stays.               *)
(***************************************************************************)
RepriceInputs == {"20000"}

RepriceRoom ==
    \E rn \in UpdateRoomInputs, p \in RepriceInputs : update_room_details(rn, p, "")

NextVip ==
    \/ RegisterGuest
    \/ RepriceRoom
    \/ VipManagement
    \/ NewBooking
    \/ CheckIn
    \/ CheckOut

SpecVip == Init /\ [][NextVip]_vars

(***************************************************************************)
(* Startup.  __init__ sets the seed dataset and then runs load_data, which *)
(* assigns the lists and counters one after the other inside one try       *)
(* block.  A snapshot file that does not parse raises at some point of     *)
(* that sequence; "except Exception" prints the error and load_data        *)
(* returns with what had been assigned until then.  The point is where     *)
(* the document on disk stops being readable:                              *)
(*   "file"     json.load raises, nothing has been assigned;               *)
(*   "rooms"    the rooms key is unreadable, self.rooms = [] has run;      *)
(*   "guests"   the rooms are read, the guests key is unreadable;          *)
(*   "bookings" rooms and guests are read, the bookings key is unreadable; *)
(*   "counters" all lists are read, the first counter is unreadable;       *)
(*   "none"     the document is read to its end.                           *)
(***************************************************************************)
LoadPoints == {"file", "rooms", "guests", "bookings", "counters"}

LoadOutcome(d, point) ==
    IF d = NoSnapshot THEN "NoFile"
    ELSE IF point \in LoadPoints THEN "ErrorReported"
    ELSE "ok"

load_data_failing(d, point) ==
    LET s == load_data(d) IN
    IF d = NoSnapshot THEN SeedState
    ELSE CASE point = "file" -> SeedState
           [] point = "rooms" -> [SeedState EXCEPT !.rooms = <<>>]
           [] point = "guests" -> [SeedState EXCEPT !.rooms = s.rooms]
           [] point = "bookings" -> [SeedState EXCEPT !.rooms = s.rooms, !.guests = s.guests]
           [] point = "counters" -> [SeedState EXCEPT !.rooms = s.rooms, !.guests = s.guests,
                                                      !.bookings = s.bookings, !.staff = s.staff,
                                                      !.services = s.services]
           [] OTHER -> s

(* The program is started again on the snapshot file as it is. *)
startup(point) ==
    LET s == load_data_failing(disk, point) IN
    /\ rooms' = s.rooms
    /\ guests' = s.guests
    /\ bookings' = s.bookings
    /\ next_guest_id' = s.next_guest_id
    /\ next_booking_id' = s.next_booking_id
    /\ UNCHANGED <<disk, orders>>

Startup == \E point \in LoadPoints \cup {"none"} : startup(point)

(***************************************************************************)
(* Sessions: registration, booking, check-in and cancellation, with the    *)
(* program started again at any moment on a snapshot file that may have    *)
(* become unreadable.                                                      *)
(***************************************************************************)
NextRestart ==
    \/ RegisterGuest
    \/ NewBooking
    \/ CheckIn
    \/ CancelBooking
    \/ Startup

SpecRestart == Init /\ [][NextRestart]_vars

(***************************************************************************)
(* A save that fails.  save_data has no handler of its own: when open()    *)
(* refuses hotel_data.json the exception leaves the menu handler, whose    *)
(* last statement the save is, and is printed by the main loop, which then *)
(* shows the menu again.  The file keeps its content when it cannot be     *)
(* opened, and is left cut short when the write fails after open() has     *)
(* emptied it.                                                             *)
(***************************************************************************)
Truncated == <<[truncated |-> TRUE]>>

save_data_raises == disk' \in {disk, Truncated}

SaveOutcome(raises) == IF raises THEN "Error" ELSE "ok"

(* register_guest undoing the registration when its save raises. *)
register_guest_save_raises_RollsBack(name) ==
    /\ UNCHANGED <<rooms, guests, bookings, next_guest_id, next_booking_id, orders>>
    /\ save_data_raises

register_guest_save_raises(name) ==
    /\ guests' = Append(guests, Guest(next_guest_id, name))
    /\ next_guest_id' = next_guest_id + 1
    /\ UNCHANGED <<rooms, bookings, next_booking_id, orders>>
    /\ save_data_raises

check_in_save_raises(booking_id) ==
    LET bi == FindBookingIn(bookings, booking_id, {"CONFIRMED"})
        ri == FindRoom(rooms, bookings[bi].room_number)
    IN
    /\ CheckInOutcome(booking_id) = "ok"
    /\ rooms' = [rooms EXCEPT ![ri] = room_check_in(rooms[ri])]
    /\ bookings' = [bookings EXCEPT ![bi].status = "CHECKED_IN"]
    /\ UNCHANGED <<guests, next_guest_id, next_booking_id, orders>>
    /\ save_data_raises

cancel_booking_save_raises(booking_id) ==
    LET bi == FindBookingIn(bookings, booking_id, {"CONFIRMED", "CHECKED_IN"})
        ri == FindRoom(rooms, bookings[bi].room_number)
    IN
    /\ CancelOutcome(booking_id) = "ok"
    /\ rooms' = IF ri = 0 THEN rooms
                 ELSE [rooms EXCEPT ![ri].status = "AVAILABLE", ![ri].current_guest = NoneStr,
                                    ![ri].check_in_date = NoDate, ![ri].check_out_date = NoDate]
    /\ bookings' = [bookings EXCEPT ![bi].status = "CANCELLED", ![bi].payment_status = "REFUNDED"]
    /\ UNCHANGED <<guests, next_guest_id, next_booking_id, orders>>
    /\ save_data_raises

RegisterGuestSaveRaises ==
    \E n \in NameInputs :
        /\ Len(guests) < MaxGuests
        /\ n = NameTyped(Len(guests) + 1)
        /\ register_guest_save_raises(n)

CheckInSaveRaises == \E b \in BookingIdInputs : check_in_save_raises(b)

CancelBookingSaveRaises == \E b \in BookingIdInputs : cancel_booking_save_raises(b)

(***************************************************************************)
(* Sessions in which the snapshot file cannot be written from time to      *)
(* time: registration, booking, check-in and cancellation, each of the     *)
(* three single-save handlers with its save succeeding or raising.         *)
(***************************************************************************)
NextSaveFails ==
    \/ RegisterGuest
    \/ NewBooking
    \/ CheckIn
    \/ CancelBooking
    \/ RegisterGuestSaveRaises
    \/ CheckInSaveRaises
    \/ CancelBookingSaveRaises

SpecSaveFails == Init /\ [][NextSaveFails]_vars

(***************************************************************************)
(* Properties.                                                             *)
(***************************************************************************)
mem == <<rooms, guests, bookings, next_guest_id, next_booking_id>>

BookingsOn(room_number, status) ==
    {i \in DOMAIN bookings : bookings[i].room_number = room_number /\ bookings[i].status = status}

Terminal == {"CHECKED_OUT", "CANCELLED"}

(* C1: for every room, its status is BOOKED iff exactly one booking on its *)
(* number is CONFIRMED, OCCUPIED iff exactly one is CHECKED_IN; an         *)
(* AVAILABLE or MAINTENANCE room has no active booking; no room has two    *)
(* active bookings.                                                        *)
C1_RoomMatchesActiveBooking ==
    \A r \in DOMAIN rooms :
        LET confirmed == Cardinality(BookingsOn(rooms[r].room_number, "CONFIRMED"))
            checked_in == Cardinality(BookingsOn(rooms[r].room_number, "CHECKED_IN"))
        IN /\ rooms[r].status = "BOOKED" <=> confirmed = 1
           /\ rooms[r].status = "OCCUPIED" <=> checked_in = 1
           /\ confirmed + checked_in <= 1
           /\ rooms[r].status \in {"AVAILABLE", "MAINTENANCE"} => confirmed + checked_in = 0

(* A room occupied under its second booking, the first one being over. *)
C1_Witness ==
    \E i, j \in DOMAIN bookings :
        /\ i < j
        /\ bookings[i].room_number = bookings[j].room_number
        /\ bookings[i].status \in Terminal
        /\ bookings[j].status = "CHECKED_IN"
        /\ rooms[FindRoom(rooms, bookings[j].room_number)].status = "OCCUPIED"

RoomNotAvailable(room_number) ==
    \A i \in DOMAIN rooms : rooms[i].room_number = room_number => rooms[i].status # "AVAILABLE"

GuestKnown(guest_id) == guest_id = 0 \/ FindGuest(guests, guest_id) # 0

(* C2: new_booking for a known guest on a room that is not AVAILABLE       *)
(* reports RoomUnavailable, adds no booking, leaves the booking ID counter *)
(* and every room, booking and existing guest as they were.                *)
C2_Refused ==
    /\ bookings' = bookings
    /\ next_booking_id' = next_booking_id
    /\ rooms' = rooms
    /\ SubSeq(guests', 1, Len(guests)) = guests

C2_NoDoubleBooking ==
    /\ [](\A g \in GuestIdInputs \cup {0}, n \in NameInputs, rn \in RoomNumberInputs :
              (GuestKnown(g) /\ RoomNotAvailable(rn)) => NewBookingOutcome(g, n, rn) = "RoomUnavailable")
    /\ [][\/ C2_Refused
          \/ \A g \in GuestIdInputs \cup {0}, n \in NameInputs, ci \in CheckInInputs,
                co \in CheckOutInputs, rn \in RoomNumberInputs, a \in AdultsInputs, c \in ChildrenInputs :
                 ~(GuestKnown(g) /\ RoomNotAvailable(rn) /\ new_booking(g, n, ci, co, rn, a, c))]_vars

(* A room booked by a successful new_booking while a second guest is    *)
(* registered who may ask for the same room.                            *)
C2_Witness ==
    /\ Len(guests) = 2
    /\ \E i \in DOMAIN bookings :
           /\ bookings[i].status = "CONFIRMED"
           /\ bookings[i].guest_id = GuestIdSeed
           /\ rooms[FindRoom(rooms, bookings[i].room_number)].status = "BOOKED"
    /\ Len(bookings) < MaxBookings

(* C3: every booking that is CHECKED_OUT has payment status PAID. *)
C3_CheckedOutIsPaid ==
    \A i \in DOMAIN bookings : bookings[i].status = "CHECKED_OUT" => bookings[i].payment_status = "PAID"

(* C4: a reservation-engine handler that ends in a failure leaves every    *)
(* room, guest and booking and both ID counters as they were before it     *)
(* (for new_booking with guest ID 0: as they were once the new guest was   *)
(* registered).                                                            *)
C4_FailureChangesNothing ==
    [][/\ \A b \in BookingIdInputs, m \in MethodChoiceInputs :
              (check_out(b, m) /\ CheckOutOutcome(b, m) # "ok") => UNCHANGED mem
       /\ \A b \in BookingIdInputs :
              (check_in(b) /\ CheckInOutcome(b) # "ok") => UNCHANGED mem
       /\ \A b \in BookingIdInputs :
              (cancel_booking(b) /\ CancelOutcome(b) # "ok") => UNCHANGED mem
       /\ \A b \in BookingIdInputs, m \in MethodChoiceInputs :
              (process_payment(b, m) /\ PaymentOutcome(bookings, b, m) # "ok") => UNCHANGED mem
       /\ \A g \in GuestIdInputs, sv \in ServiceIdInputs :
              (restaurant_services(g, sv) /\ ServiceOutcome(g, sv) # "ok") => UNCHANGED mem
       /\ \A g \in GuestIdInputs \cup {0}, n \in NameInputs, ci \in CheckInInputs, co \in CheckOutInputs,
             rn \in RoomNumberInputs, a \in AdultsInputs, c \in ChildrenInputs :
              (new_booking(g, n, ci, co, rn, a, c) /\ NewBookingOutcome(g, n, rn) # "ok")
              => /\ UNCHANGED <<rooms, bookings, next_booking_id>>
                 /\ guests' = GuestsAtBooking(g, n)]_vars

RECURSIVE SumCheckedOut(_, _, _)
SumCheckedOut(bs, guest_id, n) ==
    IF n = 0 THEN 0
    ELSE SumCheckedOut(bs, guest_id, n - 1)
         + (IF bs[n].guest_id = guest_id /\ bs[n].status = "CHECKED_OUT" THEN bs[n].total_amount ELSE 0)

(* C5: for every guest, total_spent is the sum of total_amount over that   *)
(* guest's CHECKED_OUT bookings.                                           *)
C5_SpentIsSumOfCompletedStays ==
    \A g \in DOMAIN guests :
        guests[g].total_spent = SumCheckedOut(bookings, guests[g].guest_id, Len(bookings))

(* A guest with one completed stay that was billed a service order, and *)
(* one cancelled booking.                                               *)
C5_Witness ==
    \E i, j \in DOMAIN bookings :
        /\ bookings[i].guest_id = bookings[j].guest_id
        /\ bookings[i].status = "CHECKED_OUT"
        /\ bookings[j].status = "CANCELLED"
        /\ orders > 0
        /\ guests[FindGuest(guests, bookings[i].guest_id)].total_spent = bookings[i].total_amount

(* C6: between handlers, what load_data reads from the snapshot file is    *)
(* the in-memory state.                                                    *)
C6_SnapshotIsMemory == load_data(disk) = Memory

Allowed(before, after) ==
    \/ before = after
    \/ before = "CONFIRMED" /\ after \in {"CHECKED_IN", "CANCELLED"}
    \/ before = "CHECKED_IN" /\ after \in {"CHECKED_OUT", "CANCELLED"}

(* C7: in every step no booking disappears and every booking's status      *)
(* stays or moves CONFIRMED->CHECKED_IN (by check_in), CHECKED_IN->        *)
(* CHECKED_OUT (by check_out), or CONFIRMED/CHECKED_IN->CANCELLED (by      *)
(* cancel_booking); a CHECKED_OUT or CANCELLED booking keeps its status.   *)
C7_BookingStatusMachine ==
    [][/\ Len(bookings') >= Len(bookings)
       /\ \A i \in DOMAIN bookings :
              LET before == bookings[i].status
                  after == bookings'[i].status
              IN /\ Allowed(before, after)
                 /\ (before # after /\ after = "CHECKED_IN") => \E b \in BookingIdInputs : check_in(b)
                 /\ (before # after /\ after = "CHECKED_OUT")
                        => \E b \in BookingIdInputs, m \in MethodChoiceInputs : check_out(b, m)
                 /\ (before # after /\ after = "CANCELLED") => \E b \in BookingIdInputs : cancel_booking(b)]_vars

(* One booking checked out and another cancelled. *)
C7_Witness ==
    \E i, j \in DOMAIN bookings :
        bookings[i].status = "CHECKED_OUT" /\ bookings[j].status = "CANCELLED"

RoomStep(before, after) ==
    \/ before = after
    \/ before = "AVAILABLE" /\ after \in {"BOOKED", "MAINTENANCE"}
    \/ before = "BOOKED" /\ after \in {"OCCUPIED", "AVAILABLE"}
    \/ before = "OCCUPIED" /\ after = "AVAILABLE"
    \/ before = "MAINTENANCE" /\ after = "AVAILABLE"

IsNewBooking ==
    \E g \in GuestIdInputs \cup {0}, n \in NameInputs, ci \in CheckInInputs, co \in CheckOutInputs,
       rn \in RoomNumberInputs, a \in AdultsInputs, c \in ChildrenInputs :
        new_booking(g, n, ci, co, rn, a, c)

(* C8: in every step no room disappears and every room's status stays or   *)
(* moves AVAILABLE->BOOKED (by new_booking), BOOKED->OCCUPIED (by          *)
(* check_in), OCCUPIED->AVAILABLE (by check_out or cancel_booking),        *)
(* BOOKED->AVAILABLE (by cancel_booking), or between AVAILABLE and         *)
(* MAINTENANCE (by room_maintenance).                                      *)
C8_RoomStatusMachine ==
    [][/\ Len(rooms') >= Len(rooms)
       /\ \A r \in DOMAIN rooms :
              LET before == rooms[r].status
                  after == rooms'[r].status
              IN \/ before = after
                 \/ /\ RoomStep(before, after)
                    /\ after = "BOOKED" => IsNewBooking
                    /\ after = "OCCUPIED" => \E b \in BookingIdInputs : check_in(b)
                    /\ (before = "OCCUPIED" /\ after = "AVAILABLE")
                           => \/ \E b \in BookingIdInputs, m \in MethodChoiceInputs : check_out(b, m)
                              \/ \E b \in BookingIdInputs : cancel_booking(b)
                    /\ (before = "BOOKED" /\ after = "AVAILABLE")
                           => \E b \in BookingIdInputs : cancel_booking(b)
                    /\ (before = "MAINTENANCE" \/ after = "MAINTENANCE")
                           => \E rn \in MaintenanceInputs : room_maintenance(rn)]_vars

(* One room under maintenance while another is occupied, after a first *)
(* booking was cancelled.                                              *)
C8_Witness ==
    /\ \E r \in DOMAIN rooms : rooms[r].status = "MAINTENANCE"
    /\ \E r \in DOMAIN rooms : rooms[r].status = "OCCUPIED"
    /\ \E i \in DOMAIN bookings : bookings[i].status = "CANCELLED"

(* C9: a successful new_booking appends exactly one booking, with the ID   *)
(* the booking counter had, status CONFIRMED, payment PENDING and no       *)
(* payment method, for the given guest, room and dates; advances the       *)
(* counter by one; turns the target room from AVAILABLE to BOOKED with the *)
(* guest's name and the two dates as its occupant fields; and changes no   *)
(* other room, no earlier booking and no existing guest.                   *)
C9_Created(g, n, ci, co, rn) ==
    LET b == bookings'[Len(bookings')]
        ri == FindRoom(rooms, rn)
        gi == FindGuest(guests', GuestIdAtBooking(g))
    IN /\ Len(bookings') = Len(bookings) + 1
       /\ SubSeq(bookings', 1, Len(bookings)) = bookings
       /\ b.booking_id = next_booking_id
       /\ next_booking_id' = next_booking_id + 1
       /\ b.status = "CONFIRMED" /\ b.payment_status = "PENDING" /\ b.payment_method = NoneStr
       /\ b.guest_id = GuestIdAtBooking(g) /\ b.room_number = rn
       /\ b.check_in = ci /\ b.check_out = co
       /\ rooms[ri].status = "AVAILABLE"
       /\ rooms'[ri] = [rooms[ri] EXCEPT !.status = "BOOKED", !.current_guest = guests'[gi].name,
                                         !.check_in_date = ci, !.check_out_date = co]
       /\ \A r \in DOMAIN rooms : r # ri => rooms'[r] = rooms[r]
       /\ Len(rooms') = Len(rooms)
       /\ SubSeq(guests', 1, Len(guests)) = guests
       /\ g # 0 => guests' = guests /\ next_guest_id' = next_guest_id

C9_CreateBookingEffect ==
    [][\/ bookings' = bookings /\ rooms' = rooms /\ next_booking_id' = next_booking_id
       \/ \A g \in GuestIdInputs \cup {0}, n \in NameInputs, ci \in CheckInInputs, co \in CheckOutInputs,
             rn \in RoomNumberInputs, a \in AdultsInputs, c \in ChildrenInputs :
              (new_booking(g, n, ci, co, rn, a, c) /\ NewBookingOutcome(g, n, rn) = "ok")
              => C9_Created(g, n, ci, co, rn)]_vars

(* The second guest's booking just created while the first guest's stay *)
(* goes on in another room.                                             *)
C9_Witness ==
    /\ Len(bookings) = 2
    /\ bookings[1].status = "CHECKED_IN" /\ bookings[1].guest_id = GuestIdSeed
    /\ bookings[2].status = "CONFIRMED" /\ bookings[2].payment_status = "PENDING"
    /\ bookings[2].guest_id = GuestIdSeed + 1
    /\ bookings[2].room_number # bookings[1].room_number
    /\ LET r == rooms[FindRoom(rooms, bookings[2].room_number)]
       IN r.status = "BOOKED" /\ r.current_guest = NameTyped(2) /\ r.check_out_date = bookings[2].check_out

(* C10: the total_amount of a booking just created is the room's nightly   *)
(* price times the nights for a guest who is not VIP at that moment, and   *)
(* nine tenths of that for a VIP guest; a non-VIP booking of room 101 at   *)
(* 2500 for 3 nights costs 7500 and leaves room 101 BOOKED.                *)
C10_Priced(g, ci, co, rn) ==
    LET b == bookings'[Len(bookings')]
        price == rooms[FindRoom(rooms, rn)].price
        vip == guests'[FindGuest(guests', GuestIdAtBooking(g))].vip_status
    IN /\ ~vip => b.total_amount = price * (co - ci)
       /\ vip => b.total_amount * 10 = price * (co - ci) * 9
       /\ (~vip /\ rn = "101" /\ price = 2500 /\ co - ci = 3)
              => b.total_amount = 7500 /\ rooms'[FindRoom(rooms', "101")].status = "BOOKED"

C10_PricingAtCreation ==
    [][\/ bookings' = bookings
       \/ \A g \in GuestIdInputs \cup {0}, n \in NameInputs, ci \in CheckInInputs, co \in CheckOutInputs,
             rn \in RoomNumberInputs, a \in AdultsInputs, c \in ChildrenInputs :
              (new_booking(g, n, ci, co, rn, a, c) /\ NewBookingOutcome(g, n, rn) = "ok")
              => C10_Priced(g, ci, co, rn)]_vars

(* Room 101 booked for 7500 by a guest who is not VIP and room 401 booked *)
(* at the discounted 40500 by a VIP guest.                                *)
C10_Witness ==
    \E i, j \in DOMAIN bookings :
        /\ bookings[i].room_number = "101" /\ bookings[i].total_amount = 7500
        /\ bookings[i].status = "CONFIRMED"
        /\ ~guests[FindGuest(guests, bookings[i].guest_id)].vip_status
        /\ rooms[FindRoom(rooms, "101")].status = "BOOKED"
        /\ bookings[j].room_number = "401" /\ bookings[j].total_amount = 40500
        /\ guests[FindGuest(guests, bookings[j].guest_id)].vip_status

IsCheckOut == \E b \in BookingIdInputs, m \in MethodChoiceInputs : check_out(b, m)

IsCheckIn == \E b \in BookingIdInputs : check_in(b)

IsCancel == \E b \in BookingIdInputs : cancel_booking(b)

RoomCleared(r) ==
    [r EXCEPT !.status = "AVAILABLE", !.current_guest = NoneStr,
              !.check_in_date = NoDate, !.check_out_date = NoDate]

(* C11: a successful check_out of a CHECKED_IN booking sets it to          *)
(* CHECKED_OUT, sets its room to AVAILABLE with occupant name and dates    *)
(* cleared, adds 1 to its guest's total_stays and the booking's            *)
(* total_amount as it then stands to the guest's total_spent, and changes  *)
(* no other guest, room or booking.                                        *)
C11_CheckedOut(booking_id) ==
    LET bi == FindBookingIn(bookings, booking_id, {"CHECKED_IN"})
        ri == FindRoom(rooms, bookings[bi].room_number)
        gi == FindGuest(guests, bookings[bi].guest_id)
    IN /\ bi # 0 /\ ri # 0 /\ gi # 0
       /\ Len(bookings') = Len(bookings) /\ Len(rooms') = Len(rooms) /\ Len(guests') = Len(guests)
       /\ bookings'[bi].status = "CHECKED_OUT"
       /\ bookings'[bi].total_amount = bookings[bi].total_amount
       /\ bookings'[bi].guest_id = bookings[bi].guest_id
       /\ bookings'[bi].room_number = bookings[bi].room_number
       /\ rooms'[ri] = RoomCleared(rooms[ri])
       /\ guests'[gi].total_stays = guests[gi].total_stays + 1
       /\ guests'[gi].total_spent = guests[gi].total_spent + bookings[bi].total_amount
       /\ guests'[gi].guest_id = guests[gi].guest_id /\ guests'[gi].name = guests[gi].name
       /\ \A i \in DOMAIN bookings : i # bi => bookings'[i] = bookings[i]
       /\ \A r \in DOMAIN rooms : r # ri => rooms'[r] = rooms[r]
       /\ \A g \in DOMAIN guests : g # gi => guests'[g] = guests[g]

C11_CheckOutEffect ==
    [][\/ bookings' = bookings
       \/ \A b \in BookingIdInputs, m \in MethodChoiceInputs :
              (check_out(b, m) /\ CheckOutOutcome(b, m) = "ok") => C11_CheckedOut(b)]_vars

(* A stay billed a service order and checked out, paid, while another *)
(* guest's booking on another room stays CONFIRMED.                   *)
C11_Witness ==
    \E i, j \in DOMAIN bookings :
        /\ bookings[i].status = "CHECKED_OUT" /\ bookings[i].payment_status = "PAID"
        /\ bookings[i].total_amount = 7500 + ServicePrice
        /\ rooms[FindRoom(rooms, bookings[i].room_number)].status = "AVAILABLE"
        /\ LET g == guests[FindGuest(guests, bookings[i].guest_id)]
           IN g.total_stays = 1 /\ g.total_spent = 7500 + ServicePrice
        /\ bookings[j].status = "CONFIRMED" /\ bookings[j].guest_id # bookings[i].guest_id
        /\ rooms[FindRoom(rooms, bookings[j].room_number)].status = "BOOKED"

(* C12: after a successful check_out for a guest who was not VIP before    *)
(* it, the guest is VIP iff the updated total_spent is strictly greater    *)
(* than 50000; exactly 50000 does not promote; prior total_spent 48000     *)
(* plus a stay worth 3000 gives 51000 and VIP.                             *)
C12_Promoted(booking_id) ==
    LET bi == FindBookingIn(bookings, booking_id, {"CHECKED_IN"})
        gi == FindGuest(guests, bookings[bi].guest_id)
    IN ~guests[gi].vip_status
       => /\ guests'[gi].total_spent = guests[gi].total_spent + bookings[bi].total_amount
          /\ guests'[gi].vip_status <=> guests'[gi].total_spent > 50000
          /\ guests'[gi].total_spent = 50000 => ~guests'[gi].vip_status

C12_Scenario ==
    LET after == GuestAfterStay([Guest(GuestIdSeed, "Asha") EXCEPT !.total_spent = 48000], 3000)
    IN after.total_spent = 51000 /\ after.vip_status

C12_AutoVip ==
    /\ []C12_Scenario
    /\ [][\/ guests' = guests
          \/ \A b \in BookingIdInputs, m \in MethodChoiceInputs :
                 (check_out(b, m) /\ CheckOutOutcome(b, m) = "ok") => C12_Promoted(b)]_vars

(* A guest left at exactly 50000 by the first stay (room 101 repriced to  *)
(* 16500, 3 nights, one service order) and not promoted.                  *)
C12_Witness ==
    \E g \in DOMAIN guests :
        /\ guests[g].total_spent = 50000 /\ guests[g].total_stays = 1 /\ ~guests[g].vip_status
        /\ \E i \in DOMAIN bookings :
               /\ bookings[i].guest_id = guests[g].guest_id
               /\ bookings[i].status = "CHECKED_OUT" /\ bookings[i].total_amount = 50000

IsPayment == \E b \in BookingIdInputs, m \in MethodChoiceInputs : process_payment(b, m)

IsService == \E g \in GuestIdInputs, sv \in ServiceIdInputs : restaurant_services(g, sv)

VipKept == \A g \in DOMAIN guests : guests[g].vip_status => guests'[g].vip_status

(* C13: no new_booking, check_in, check_out, cancel_booking,               *)
(* process_payment or restaurant_services step turns a guest's vip_status  *)
(* from true to false.                                                     *)
C13_NoAutomaticDemotion ==
    [][\/ guests' = guests
       \/ /\ Len(guests') >= Len(guests)
          /\ (IsNewBooking \/ IsCheckIn \/ IsCheckOut \/ IsCancel \/ IsPayment \/ IsService)
                 => VipKept]_vars

(* A guest made VIP by hand, still VIP after a discounted booking, a     *)
(* service order, check-in, check-out with payment and a cancelled       *)
(* second booking, with less than the threshold spent.                   *)
C13_Witness ==
    \E g \in DOMAIN guests :
        /\ guests[g].vip_status /\ guests[g].total_stays = 1 /\ guests[g].total_spent < 50000
        /\ \E i, j \in DOMAIN bookings :
               /\ bookings[i].guest_id = guests[g].guest_id /\ bookings[j].guest_id = guests[g].guest_id
               /\ bookings[i].status = "CHECKED_OUT" /\ bookings[i].payment_status = "PAID"
               /\ bookings[i].total_amount = 6750 + ServicePrice
               /\ bookings[j].status = "CANCELLED"

CountersChanged(g) ==
    guests'[g].total_stays # guests[g].total_stays \/ guests'[g].total_spent # guests[g].total_spent

VipChanged(g) == guests'[g].vip_status # guests[g].vip_status

(* A check_out step on a CHECKED_IN booking of guest g whose outcome is in *)
(* outcomes.                                                               *)
CheckOutOf(g, outcomes) ==
    \E b \in BookingIdInputs, m \in MethodChoiceInputs :
        /\ CheckOutOutcome(b, m) \in outcomes
        /\ bookings[FindBookingIn(bookings, b, {"CHECKED_IN"})].guest_id = guests[g].guest_id
        /\ check_out(b, m)

C15_Cancelled(booking_id) ==
    LET bi == FindBookingIn(bookings, booking_id, {"CONFIRMED", "CHECKED_IN"})
        ri == FindRoom(rooms, bookings[bi].room_number)
    IN /\ bi # 0 /\ ri # 0
       /\ bookings[bi].payment_status \in {"PENDING", "PAID"}
       /\ bookings' = [bookings EXCEPT ![bi].status = "CANCELLED", ![bi].payment_status = "REFUNDED"]
       /\ rooms[ri].status = IF bookings[bi].status = "CONFIRMED" THEN "BOOKED" ELSE "OCCUPIED"
       /\ rooms' = [rooms EXCEPT ![ri] = RoomCleared(rooms[ri])]
       /\ guests' = guests

C15_CancelEffect ==
    [][\/ bookings' = bookings
       \/ \A b \in BookingIdInputs :
              (cancel_booking(b) /\ CancelOutcome(b) = "ok") => C15_Cancelled(b)]_vars

(* Two cancelled bookings marked REFUNDED, one that had been paid and one *)
(* that had not, their rooms AVAILABLE again.                             *)
C15_Witness ==
    \E i, j \in DOMAIN bookings :
        /\ bookings[i].status = "CANCELLED" /\ bookings[i].payment_status = "REFUNDED"
        /\ bookings[i].payment_method # NoneStr
        /\ bookings[j].status = "CANCELLED" /\ bookings[j].payment_status = "REFUNDED"
        /\ bookings[j].payment_method = NoneStr
        /\ rooms[FindRoom(rooms, bookings[i].room_number)].status = "AVAILABLE"
        /\ rooms[FindRoom(rooms, bookings[j].room_number)].status = "AVAILABLE"

NotCancellable(booking_id) ==
    \A i \in DOMAIN bookings : bookings[i].booking_id = booking_id => bookings[i].status \in Terminal

(* C16: cancel_booking on a booking that is CHECKED_OUT or CANCELLED, or   *)
(* on an unknown booking ID, reports that it cannot be cancelled and       *)
(* leaves every booking, room and guest as it was.                         *)
C16_CancelRefused ==
    /\ [](\A b \in BookingIdInputs : NotCancellable(b) => CancelOutcome(b) = "NotCancellable")
    /\ [][\/ UNCHANGED mem
          \/ \A b \in BookingIdInputs : ~(NotCancellable(b) /\ cancel_booking(b))]_vars

(* A cancelled booking whose room has since been booked again by a *)
(* booking that is still CONFIRMED.                                *)
C16_Witness ==
    \E i, j \in DOMAIN bookings :
        /\ bookings[i].status = "CANCELLED" /\ bookings[j].status = "CONFIRMED"
        /\ bookings[i].room_number = bookings[j].room_number
        /\ rooms[FindRoom(rooms, bookings[i].room_number)].status = "BOOKED"

(* C17: a successful check_in finds the booking CONFIRMED, sets it to      *)
(* CHECKED_IN and its room from BOOKED to OCCUPIED, and leaves the room's  *)
(* occupant fields, the booking's other fields and every guest unchanged.  *)
C17_CheckedIn(booking_id) ==
    LET bi == FindBooking(bookings, booking_id)
        ri == FindRoom(rooms, bookings[bi].room_number)
    IN /\ bi # 0 /\ ri # 0
       /\ bookings[bi].status = "CONFIRMED"
       /\ bookings' = [bookings EXCEPT ![bi].status = "CHECKED_IN"]
       /\ rooms[ri].status = "BOOKED"
       /\ rooms' = [rooms EXCEPT ![ri].status = "OCCUPIED"]
       /\ guests' = guests

C17_CheckInEffect ==
    [][\/ bookings' = bookings
       \/ \A b \in BookingIdInputs :
              (check_in(b) /\ CheckInOutcome(b) = "ok") => C17_CheckedIn(b)]_vars

(* A paid, VIP-priced booking checked in: the room is OCCUPIED and still *)
(* carries the guest's name and the dates of the booking.                *)
C17_Witness ==
    \E i \in DOMAIN bookings :
        /\ bookings[i].status = "CHECKED_IN" /\ bookings[i].payment_status = "PAID"
        /\ bookings[i].total_amount = 40500
        /\ LET r == rooms[FindRoom(rooms, bookings[i].room_number)]
               g == guests[FindGuest(guests, bookings[i].guest_id)]
           IN /\ r.status = "OCCUPIED" /\ r.current_guest = g.name
              /\ r.check_in_date = bookings[i].check_in /\ r.check_out_date = bookings[i].check_out

NotInStatus(booking_id, status) ==
    \A i \in DOMAIN bookings : bookings[i].booking_id = booking_id => bookings[i].status # status

(* C18: check_in on a booking ID that does not exist or is not CONFIRMED,  *)
(* and check_out on one that does not exist or is not CHECKED_IN, both     *)
(* report BookingNotFound and leave every room, booking and guest as it    *)
(* was.                                                                    *)
C18_WrongStatusRefused ==
    /\ [](\A b \in BookingIdInputs, m \in MethodChoiceInputs :
              /\ NotInStatus(b, "CONFIRMED") => CheckInOutcome(b) = "BookingNotFound"
              /\ NotInStatus(b, "CHECKED_IN") => CheckOutOutcome(b, m) = "BookingNotFound")
    /\ [][\/ UNCHANGED mem
          \/ \A b \in BookingIdInputs, m \in MethodChoiceInputs :
                 /\ ~(NotInStatus(b, "CONFIRMED") /\ check_in(b))
                 /\ ~(NotInStatus(b, "CHECKED_IN") /\ check_out(b, m))]_vars

(* A guest with one stay checked out and counted once, and a second    *)
(* booking still CONFIRMED: neither can be checked out.                *)
C18_Witness ==
    \E i, j \in DOMAIN bookings :
        /\ bookings[i].status = "CHECKED_OUT" /\ bookings[j].status = "CONFIRMED"
        /\ bookings[i].guest_id = bookings[j].guest_id
        /\ LET g == guests[FindGuest(guests, bookings[i].guest_id)]
           IN g.total_stays = 1 /\ g.total_spent = bookings[i].total_amount

GuestUnknown(guest_id) == guest_id # 0 /\ FindGuest(guests, guest_id) = 0

(* C19: new_booking with an unknown guest ID reports GuestNotFound; no     *)
(* booking exists whose check_out is on or before its check_in; and a      *)
(* new_booking for an unknown guest or with such a pair of dates adds no   *)
(* booking, changes no room and does not advance the booking ID counter.   *)
C19_BookingRefused ==
    /\ [](\A g \in GuestIdInputs, n \in NameInputs, rn \in RoomNumberInputs :
              GuestUnknown(g) => NewBookingOutcome(g, n, rn) = "GuestNotFound")
    /\ [](\A i \in DOMAIN bookings : bookings[i].check_out > bookings[i].check_in)
    /\ [][\/ bookings' = bookings /\ rooms' = rooms /\ next_booking_id' = next_booking_id
          \/ \A g \in GuestIdInputs \cup {0}, n \in NameInputs, ci \in CheckInInputs,
                co \in CheckOutInputs, rn \in RoomNumberInputs, a \in AdultsInputs, c \in ChildrenInputs :
                 ~((GuestUnknown(g) \/ co <= ci) /\ new_booking(g, n, ci, co, rn, a, c))]_vars

(* One guest registered and holding the only booking, room 401 free, and  *)
(* guest ID 1002 not yet given out.                                       *)
C19_Witness ==
    /\ Len(guests) = 1 /\ GuestUnknown(GuestIdSeed + 1)
    /\ Len(bookings) = 1 /\ bookings[1].check_out > bookings[1].check_in
    /\ next_booking_id = BookingIdSeed + 1
    /\ rooms[FindRoom(rooms, "401")].status = "AVAILABLE"

DaysBetween(from, to) == Cardinality({d \in from..to : d < to})

(* C20: every booking, in memory and as read back from the snapshot file,  *)
(* has its check_out strictly after its check_in, and calculate_nights()   *)
(* is the number of days from check_in up to check_out, at least 1.        *)
C20_Nights(bs) ==
    \A i \in DOMAIN bs :
        /\ bs[i].check_out > bs[i].check_in
        /\ calculate_nights(bs[i]) = DaysBetween(bs[i].check_in, bs[i].check_out)
        /\ calculate_nights(bs[i]) >= 1

C20_NightsAtLeastOne == C20_Nights(bookings) /\ C20_Nights(load_data(disk).bookings)

(* Two bookings of three nights each, saved. *)
C20_Witness ==
    /\ Len(bookings) = 2 /\ Len(load_data(disk).bookings) = 2
    /\ \A i \in DOMAIN bookings : calculate_nights(bookings[i]) = 3

Paid(booking_id) ==
    LET i == FindBooking(bookings, booking_id)
    IN i # 0 /\ bookings[i].payment_status = "PAID"

(* Texts tried at the payment-method prompt. *)
MethodChoices == {"0", "1", "2", "6", "x"}

C21_SettleTwice ==
    \A b \in BookingIdInputs, m1 \in MethodChoices, m2 \in MethodChoices :
        PaymentOutcome(bookings, b, m1) = "ok"
        => LET once == PaymentApplied(bookings, b, m1)
           IN /\ PaymentOutcome(once, b, m2) = "AlreadyPaid"
              /\ PaymentApplied(once, b, m2) = once

(* C21: process_payment on a booking whose payment status is PAID reports  *)
(* "already completed", whatever is typed, and changes nothing; settling   *)
(* twice leaves what settling once left, the first method included.        *)
C21_PaidIsSettled ==
    /\ [](\A b \in BookingIdInputs, m \in MethodChoices :
              Paid(b) => PaymentOutcome(bookings, b, m) = "AlreadyPaid")
    /\ []C21_SettleTwice
    /\ [][\/ UNCHANGED vars
          \/ \A b \in BookingIdInputs, m \in MethodChoiceInputs : ~(Paid(b) /\ process_payment(b, m))]_vars

(* A CONFIRMED booking settled by credit card, which may be settled again. *)
C21_Witness ==
    \E i \in DOMAIN bookings :
        /\ bookings[i].status = "CONFIRMED" /\ bookings[i].payment_status = "PAID"
        /\ bookings[i].payment_method = "Credit Card"
        /\ load_data(disk).bookings[i].payment_method = "Credit Card"

MethodNames == {"Credit Card", "Debit Card", "Net Banking", "UPI", "Cash"}

(* C22: process_payment on an existing booking whose payment status is not *)
(* PAID, whatever its booking status, sets the payment status to PAID and  *)
(* records the method chosen from the menu, one of the five method names   *)
(* (choice 1 is Credit Card); it changes no booking status, no             *)
(* total_amount, no other booking, no room and no guest.                   *)
C22_Settled(booking_id, method_choice) ==
    LET i == FindBooking(bookings, booking_id)
    IN /\ i # 0
       /\ bookings[i].payment_status \in {"PENDING", "REFUNDED"}
       /\ bookings'[i].payment_status = "PAID"
       /\ bookings'[i].payment_method \in MethodNames
       /\ method_choice = "1" => bookings'[i].payment_method = "Credit Card"
       /\ bookings' = [bookings EXCEPT ![i].payment_status = "PAID",
                                       ![i].payment_method = bookings'[i].payment_method]
       /\ rooms' = rooms /\ guests' = guests

C22_SettleEffect ==
    /\ [](\A b \in BookingIdInputs, m \in {"1", "2", "3", "4", "5"} :
              (FindBooking(bookings, b) # 0 /\ ~Paid(b)) => PaymentOutcome(bookings, b, m) = "ok")
    /\ [](\A i \in DOMAIN bookings :
              bookings[i].payment_status = "PAID" => bookings[i].payment_method \in MethodNames)
    /\ [][\/ bookings' = bookings
          \/ \A b \in BookingIdInputs, m \in MethodChoiceInputs :
                 (process_payment(b, m) /\ PaymentOutcome(bookings, b, m) = "ok") => C22_Settled(b, m)]_vars

(* A cancelled booking settled after its refund, and a checked-out booking *)
(* settled by hand after its check-out left it unpaid.                     *)
C22_Witness ==
    \E i, j \in DOMAIN bookings :
        /\ bookings[i].status = "CANCELLED" /\ bookings[i].payment_status = "PAID"
        /\ bookings[i].payment_method = "Credit Card"
        /\ bookings[j].status = "CHECKED_OUT" /\ bookings[j].payment_status = "PAID"
        /\ rooms[FindRoom(rooms, bookings[i].room_number)].status = "AVAILABLE"

UnknownBooking(booking_id) == FindBooking(bookings, booking_id) = 0

(* C23: process_payment with a booking ID that does not exist reports that *)
(* the booking was not found and changes nothing.                          *)
C23_UnknownBookingReported ==
    /\ [](\A b \in BookingIdInputs, m \in MethodChoiceInputs :
              UnknownBooking(b) => PaymentOutcome(bookings, b, m) = "BookingNotFound")
    /\ [][\A b \in BookingIdInputs, m \in MethodChoiceInputs :
              (UnknownBooking(b) /\ process_payment(b, m)) => UNCHANGED vars]_vars

ActiveOf(guest_id) ==
    {i \in DOMAIN bookings : bookings[i].guest_id = guest_id /\ bookings[i].status \in {"CONFIRMED", "CHECKED_IN"}}

(* C24: a restaurant_services order of service 3001 (500) for an existing  *)
(* guest is accepted; it adds 500 to the total_amount of one booking of    *)
(* the guest that is CONFIRMED or CHECKED_IN and changes nothing else; if  *)
(* the guest has no such booking no booking changes; a CHECKED_OUT or      *)
(* CANCELLED booking is never charged.                                     *)
C24_Charged(guest_id) ==
    /\ ActiveOf(guest_id) = {} => bookings' = bookings
    /\ ActiveOf(guest_id) # {}
           => \E i \in ActiveOf(guest_id) :
                  bookings' = [bookings EXCEPT ![i].total_amount = bookings[i].total_amount + 500]
    /\ \A i \in DOMAIN bookings : bookings[i].status \in Terminal => bookings'[i] = bookings[i]
    /\ rooms' = rooms /\ guests' = guests

C24_ServiceCharge ==
    /\ [](\A g \in GuestIdInputs : FindGuest(guests, g) # 0 => ServiceOutcome(g, 3001) = "ok")
    /\ [][\/ UNCHANGED vars
          \/ \A g \in GuestIdInputs, sv \in ServiceIdInputs :
                 (ServiceOutcome(g, sv) = "ok" /\ restaurant_services(g, sv)) => C24_Charged(g)]_vars

(* A guest whose first booking is checked out at its price of 7500 and *)
(* whose second, still active, carries the 500 of a service order.     *)
C24_Witness ==
    \E i, j \in DOMAIN bookings :
        /\ i < j /\ bookings[i].guest_id = bookings[j].guest_id
        /\ bookings[i].status = "CHECKED_OUT" /\ bookings[i].total_amount = 7500
        /\ bookings[j].status \in {"CONFIRMED", "CHECKED_IN"}
        /\ bookings[j].total_amount = 45000 + 500
        /\ orders = 1

(* C25: what is charged to a booking is covered by its payment: no step    *)
(* raises the total_amount of a booking whose payment status is PAID and   *)
(* leaves it PAID, so that a CHECKED_OUT booking was settled for the       *)
(* total_amount it has at check-out.                                       *)
C25_NoChargeAfterPaid ==
    [][\A i \in DOMAIN bookings :
          (bookings[i].payment_status = "PAID" /\ bookings'[i].payment_status = "PAID")
          => bookings'[i].total_amount = bookings[i].total_amount]_vars

RoomIn(room_number, statuses) ==
    \E r \in DOMAIN rooms : rooms[r].room_number = room_number /\ rooms[r].status \in statuses

(* C26: room_maintenance on a room that is BOOKED or OCCUPIED reports that *)
(* the status cannot be changed and leaves every room as it was;           *)
(* new_booking on a room under MAINTENANCE is refused and leaves every     *)
(* room as it was; and a room under MAINTENANCE changes only by            *)
(* room_maintenance setting its status back to AVAILABLE.                  *)
C26_MaintenanceGating ==
    /\ [](\A rn \in MaintenanceInputs :
              RoomIn(rn, {"BOOKED", "OCCUPIED"}) => MaintenanceOutcome(rn) = "CannotChangeStatus")
    /\ [](\A g \in GuestIdInputs \cup {0}, n \in NameInputs, rn \in RoomNumberInputs :
              (GuestKnown(g) /\ RoomIn(rn, {"MAINTENANCE"})) => NewBookingOutcome(g, n, rn) = "RoomUnavailable")
    /\ [][\/ rooms' = rooms
          \/ /\ \A rn \in MaintenanceInputs :
                    ~(RoomIn(rn, {"BOOKED", "OCCUPIED"}) /\ room_maintenance(rn))
             /\ \A r \in DOMAIN rooms :
                    (rooms[r].status = "MAINTENANCE" /\ rooms'[r] # rooms[r])
                    => /\ rooms'[r] = [rooms[r] EXCEPT !.status = "AVAILABLE"]
                       /\ room_maintenance(rooms[r].room_number)
             /\ \A g \in GuestIdInputs \cup {0}, n \in NameInputs, ci \in CheckInInputs,
                   co \in CheckOutInputs, rn \in RoomNumberInputs, a \in AdultsInputs, c \in ChildrenInputs :
                    ~(RoomIn(rn, {"MAINTENANCE"}) /\ new_booking(g, n, ci, co, rn, a, c))]_vars

(* Room 401 under maintenance after its booking was cancelled, while *)
(* room 101 is held by a CONFIRMED booking.                         *)
C26_Witness ==
    /\ RoomIn("401", {"MAINTENANCE"}) /\ RoomIn("101", {"BOOKED"})
    /\ \E i, j \in DOMAIN bookings :
           /\ bookings[i].room_number = "401" /\ bookings[i].status = "CANCELLED"
           /\ bookings[j].room_number = "101" /\ bookings[j].status = "CONFIRMED"

ActiveOn(room_number) ==
    {i \in DOMAIN bookings :
        bookings[i].room_number = room_number /\ bookings[i].status \in {"CONFIRMED", "CHECKED_IN"}}

(* C27: a room's current_guest, check_in_date and check_out_date are all   *)
(* set iff its status is BOOKED or OCCUPIED, and then they are the guest   *)
(* name and the two dates of the single active booking on that room; they  *)
(* are all empty when the room is AVAILABLE or under MAINTENANCE.          *)
C27_OccupantSnapshot ==
    \A r \in DOMAIN rooms :
        LET rm == rooms[r]
            held == rm.status \in {"BOOKED", "OCCUPIED"}
        IN /\ held <=> (rm.current_guest # NoneStr /\ rm.check_in_date # NoDate /\ rm.check_out_date # NoDate)
           /\ ~held => (rm.current_guest = NoneStr /\ rm.check_in_date = NoDate /\ rm.check_out_date = NoDate)
           /\ held => /\ Cardinality(ActiveOn(rm.room_number)) = 1
                      /\ \A i \in ActiveOn(rm.room_number) :
                             /\ FindGuest(guests, bookings[i].guest_id) # 0
                             /\ rm.current_guest = guests[FindGuest(guests, bookings[i].guest_id)].name
                             /\ rm.check_in_date = bookings[i].check_in
                             /\ rm.check_out_date = bookings[i].check_out

(* The second guest staying in one room while the room of a cancelled *)
(* booking is AVAILABLE again with its occupant fields empty.         *)
C27_Witness ==
    \E i, j \in DOMAIN bookings :
        /\ bookings[i].status = "CANCELLED" /\ bookings[j].status = "CHECKED_IN"
        /\ bookings[i].room_number # bookings[j].room_number
        /\ bookings[j].guest_id = GuestIdSeed + 1
        /\ rooms[FindRoom(rooms, bookings[j].room_number)].current_guest = NameTyped(2)
        /\ rooms[FindRoom(rooms, bookings[i].room_number)].current_guest = NoneStr
        /\ rooms[FindRoom(rooms, bookings[i].room_number)].status = "AVAILABLE"

C28_Distinct ==
    /\ \A i, j \in DOMAIN guests : i # j => guests[i].guest_id # guests[j].guest_id
    /\ \A i, j \in DOMAIN bookings : i # j => bookings[i].booking_id # bookings[j].booking_id
    /\ \A i \in DOMAIN guests : guests[i].guest_id >= 1001 /\ guests[i].guest_id < next_guest_id
    /\ \A i \in DOMAIN bookings : bookings[i].booking_id >= 5001 /\ bookings[i].booking_id < next_booking_id
    /\ Len(guests) > 0 => guests[1].guest_id = 1001
    /\ Len(bookings) > 0 => bookings[1].booking_id = 5001

C28_Issued ==
    /\ next_guest_id' >= next_guest_id /\ next_booking_id' >= next_booking_id
    /\ Len(guests') >= Len(guests) /\ Len(bookings') >= Len(bookings)
    /\ \A i \in DOMAIN guests : guests'[i].guest_id = guests[i].guest_id
    /\ \A i \in DOMAIN bookings : bookings'[i].booking_id = bookings[i].booking_id
    /\ (Len(guests') # Len(guests) \/ next_guest_id' # next_guest_id)
           => /\ Len(guests') = Len(guests) + 1
              /\ guests'[Len(guests')].guest_id = next_guest_id
              /\ next_guest_id' = next_guest_id + 1
    /\ (Len(bookings') # Len(bookings) \/ next_booking_id' # next_booking_id)
           => /\ Len(bookings') = Len(bookings) + 1
              /\ bookings'[Len(bookings')].booking_id = next_booking_id
              /\ next_booking_id' = next_booking_id + 1

(* C28: guest IDs start at 1001 and booking IDs at 5001; all guest IDs are *)
(* pairwise distinct and below next_guest_id, all booking IDs pairwise     *)
(* distinct and below next_booking_id; a counter never decreases; a guest  *)
(* or booking is added only with the current value of its counter as ID    *)
(* and the counter then advanced by exactly one, so that no ID is issued   *)
(* twice, also after a cancellation or check-out.                          *)
C28_IdSequences ==
    /\ []C28_Distinct
    /\ [][C28_Issued]_vars

(* Booking 5002 made on the room that the cancelled booking 5001 had   *)
(* held, for the second guest, 1002.                                   *)
C28_Witness ==
    /\ Len(bookings) = 2 /\ Len(guests) = 2
    /\ bookings[1].status = "CANCELLED" /\ bookings[1].booking_id = 5001
    /\ bookings[2].booking_id = 5002 /\ bookings[2].room_number = bookings[1].room_number
    /\ bookings[2].guest_id = 1002 /\ guests[2].guest_id = 1002
    /\ next_booking_id = 5003 /\ next_guest_id = 1003

DatesReadBack == \A d \in 1..365 : fromisoformat(isoformat(d)) = d

(* C29: in every reachable state, and whatever the snapshot file holds at  *)
(* that moment, load_data applied to the document save_data would write    *)
(* from memory gives back memory: every field of every room, guest and     *)
(* booking (status, payment status and method, occupant name and dates,    *)
(* total_stays, total_spent, VIP flag) and the four ID counters; a date of *)
(* any day of the year is read back as written.                            *)
C29_RoundTrip ==
    /\ load_data(Snapshot(rooms, guests, bookings, next_guest_id, next_booking_id)) = Memory
    /\ DatesReadBack

(* An occupied room with its dates, a settled booking with its method and *)
(* a VIP guest with money spent, all in memory at once.                   *)
C29_Witness ==
    /\ \E i \in DOMAIN rooms :
           rooms[i].status = "OCCUPIED" /\ rooms[i].check_out_date # NoDate
    /\ \E i \in DOMAIN bookings :
           bookings[i].payment_status = "PAID" /\ bookings[i].payment_method # NoneStr
    /\ \E i \in DOMAIN guests :
           guests[i].vip_status /\ guests[i].total_spent > 0 /\ guests[i].total_stays > 0

SeedRoomNumbers == <<"101", "102", "103", "104", "201", "202", "203", "301", "302", "401">>

C30_SeedDataset(s) ==
    /\ [i \in DOMAIN s.rooms |-> s.rooms[i].room_number] = SeedRoomNumbers
    /\ \A i \in DOMAIN s.rooms :
           /\ s.rooms[i].status = "AVAILABLE"
           /\ s.rooms[i].current_guest = NoneStr
           /\ s.rooms[i].check_in_date = NoDate
           /\ s.rooms[i].check_out_date = NoDate
    /\ [i \in DOMAIN s.services |-> s.services[i].service_id] = [i \in 1..8 |-> 3000 + i]
    /\ [i \in DOMAIN s.staff |-> s.staff[i].staff_id] = [i \in 1..5 |-> 2000 + i]
    /\ s.guests = <<>>
    /\ s.bookings = <<>>
    /\ s.next_guest_id = 1001
    /\ s.next_booking_id = 5001
    /\ s.next_staff_id = 2006
    /\ s.next_service_id = 3009

(* C30: the system starts, with no snapshot file, from the seed dataset:   *)
(* rooms 101-104, 201-203, 301-302 and 401, all AVAILABLE with no          *)
(* occupant, the eight seed services and five seed staff, no guests, no    *)
(* bookings, and the counters at 1001, 5001, 2006 and 3009; and as long as *)
(* no snapshot file has been written, load_data gives that same dataset.   *)
C30_FirstRun ==
    /\ disk = NoSnapshot /\ C30_SeedDataset(Memory)
    /\ [](disk = NoSnapshot => C30_SeedDataset(load_data(disk)))

(* The state of a first run: no snapshot file and the ten rooms in memory. *)
C30_Witness ==
    /\ disk = NoSnapshot
    /\ Len(rooms) = 10 /\ rooms[10].room_number = "401"
    /\ guests = <<>> /\ bookings = <<>>

(* The seed state, or the seed state with no rooms: nothing in it comes *)
(* from the snapshot file.                                             *)
SeedOrEmpty(s) == s = SeedState \/ s = [SeedState EXCEPT !.rooms = <<>>]

(* C31: when the program starts on a snapshot file that is present but     *)
(* cannot be read to its end, whatever the point where reading fails, an   *)
(* error is reported and the system starts in exactly the seed state or    *)
(* the empty state, never with some lists taken from the file and the      *)
(* rest, or the counters, left at their seed values.                       *)
C31_SoftFailLoad ==
    /\ [](\A point \in LoadPoints :
              disk # NoSnapshot => LoadOutcome(disk, point) = "ErrorReported")
    /\ [][\/ UNCHANGED vars
          \/ \A point \in LoadPoints :
                 (disk # NoSnapshot /\ startup(point)) => SeedOrEmpty(Memory')]_vars

C32_Registered(name) ==
    /\ guests' = Append(guests, Guest(next_guest_id, name))
    /\ next_guest_id' = next_guest_id + 1

C32_CheckedIn(booking_id) ==
    \E i \in DOMAIN bookings :
        /\ bookings[i].booking_id = booking_id
        /\ bookings[i].status = "CONFIRMED" /\ bookings'[i].status = "CHECKED_IN"
        /\ rooms'[FindRoom(rooms, bookings[i].room_number)].status = "OCCUPIED"

C32_Cancelled(booking_id) ==
    \E i \in DOMAIN bookings :
        /\ bookings[i].booking_id = booking_id
        /\ bookings[i].status # "CANCELLED" /\ bookings'[i].status = "CANCELLED"
        /\ rooms'[FindRoom(rooms, bookings[i].room_number)].status = "AVAILABLE"

(* C32: a handler whose save raises keeps what it has done in memory (the  *)
(* guest is registered with the ID counter advanced, the booking is        *)
(* checked in, the booking is cancelled): the step changes memory and is   *)
(* not undone.  The error is reported, and every later step that does      *)
(* write the snapshot file writes the whole of memory as it then is, the   *)
(* changes of the failed step included.                                    *)
C32_FailedSaveKeepsMemory ==
    /\ [](SaveOutcome(TRUE) = "Error")
    /\ [](\A n \in NameInputs : ENABLED (register_guest_save_raises(n) /\ mem' # mem))
    /\ [][\/ UNCHANGED vars
          \/ /\ \A n \in NameInputs : register_guest_save_raises(n) => C32_Registered(n)
             /\ \A b \in BookingIdInputs : check_in_save_raises(b) => C32_CheckedIn(b)
             /\ \A b \in BookingIdInputs : cancel_booking_save_raises(b) => C32_Cancelled(b)
             /\ (disk' # disk /\ disk' # Truncated) =>
                    disk' = Snapshot(rooms', guests', bookings', next_guest_id', next_booking_id')]_vars

(* The second guest registered by a step whose save raised: the file still *)
(* holds one guest and the old counter, memory holds two.                  *)
C32_Witness ==
    /\ Len(guests) = 2
    /\ disk \notin {NoSnapshot, Truncated}
    /\ Len(disk[1].guests) = 1
    /\ disk[1].next_guest_id = next_guest_id - 1

C33_NonNegative ==
    \A g \in DOMAIN guests : guests[g].total_stays >= 0 /\ guests[g].total_spent >= 0

C33_NotLess ==
    \A g \in DOMAIN guests :
        /\ g \in DOMAIN guests'
        /\ guests'[g].total_stays >= guests[g].total_stays
        /\ guests'[g].total_spent >= guests[g].total_spent

(* C33: with room prices and service prices that are not negative, every   *)
(* guest's total_stays and total_spent are at least 0 in every reachable   *)
(* state, and no step makes either of them smaller.                        *)
C33_CountersMonotone ==
    /\ []C33_NonNegative
    /\ [][guests' = guests \/ C33_NotLess]_vars

(* A guest after a second completed stay that cost less than the first. *)
C33_Witness ==
    \E g \in DOMAIN guests, i, j \in DOMAIN bookings :
        /\ i < j
        /\ guests[g].total_stays = 2
        /\ bookings[i].guest_id = guests[g].guest_id /\ bookings[j].guest_id = guests[g].guest_id
        /\ bookings[i].status = "CHECKED_OUT" /\ bookings[j].status = "CHECKED_OUT"
        /\ bookings[j].total_amount < bookings[i].total_amount
        /\ guests[g].total_spent = bookings[i].total_amount + bookings[j].total_amount

RoomNumbers(rs) == {rs[i].room_number : i \in DOMAIN rs}

GuestIds(gs) == {gs[i].guest_id : i \in DOMAIN gs}

BookingIds(bs) == {bs[i].booking_id : i \in DOMAIN bs}

(* C34: no step removes an entity: the room numbers, guest IDs and booking *)
(* IDs of a state are all present in the next state, each list is at       *)
(* least as long as before, and every room, guest and booking keeps its    *)
(* key.                                                                    *)
C34_NoDeletion ==
    [][\/ UNCHANGED mem
       \/ /\ RoomNumbers(rooms) \subseteq RoomNumbers(rooms')
          /\ GuestIds(guests) \subseteq GuestIds(guests')
          /\ BookingIds(bookings) \subseteq BookingIds(bookings')
          /\ Len(rooms') >= Len(rooms) /\ Len(guests') >= Len(guests) /\ Len(bookings') >= Len(bookings)
          /\ \A i \in DOMAIN rooms : rooms'[i].room_number = rooms[i].room_number
          /\ \A i \in DOMAIN guests : guests'[i].guest_id = guests[i].guest_id
          /\ \A i \in DOMAIN bookings : bookings'[i].booking_id = bookings[i].booking_id]_vars

(* A room added, one booking cancelled and one booking checked out, all *)
(* still on their lists.                                                *)
C34_Witness ==
    /\ Len(rooms) = 11
    /\ \E i, j \in DOMAIN bookings :
           bookings[i].status = "CANCELLED" /\ bookings[j].status = "CHECKED_OUT"

(* C35: no two rooms have the same room number; add_new_room with a number *)
(* that a room already has reports that the room exists and leaves the     *)
(* rooms as they are.                                                      *)
C35_UniqueRoomNumbers ==
    /\ [](\A i, j \in DOMAIN rooms : i # j => rooms[i].room_number # rooms[j].room_number)
    /\ [](\A rn \in AddRoomInputs, tc \in TypeChoiceInputs, p \in AddPriceInputs :
              FindRoom(rooms, rn) # 0 => AddNewRoomOutcome(rn, tc, p, "2") = "RoomExists")
    /\ [][\/ rooms' = rooms
          \/ \A rn \in AddRoomInputs, tc \in TypeChoiceInputs, p \in AddPriceInputs :
                 ~(FindRoom(rooms, rn) # 0 /\ add_new_room(rn, tc, p, "2"))]_vars

(* Room 501 has been added, so that adding 501 again is refused. *)
C35_Witness ==
    /\ Len(rooms) = 11
    /\ rooms[11].room_number = "501"
    /\ FindRoom(rooms, "501") = 11

(* C36: every booking that is CANCELLED has payment status REFUNDED. *)
C36_CancelledIsRefunded ==
    \A i \in DOMAIN bookings :
        bookings[i].status = "CANCELLED" => bookings[i].payment_status = "REFUNDED"

(* C37: a restaurant_services order for a guest with more than one booking *)
(* that is CONFIRMED or CHECKED_IN adds the price to the one of them that  *)
(* was created first (lowest booking ID) and leaves every other booking as *)
(* it is.                                                                  *)
C37_Billed(guest_id) ==
    LET first == Min(ActiveOf(guest_id)) IN
    /\ \A j \in ActiveOf(guest_id) : bookings[first].booking_id <= bookings[j].booking_id
    /\ bookings'[first].total_amount = bookings[first].total_amount + 500
    /\ \A i \in DOMAIN bookings \ {first} : bookings'[i] = bookings[i]
    /\ Len(bookings') = Len(bookings)

C37_EarliestActiveBilled ==
    [][\/ UNCHANGED vars
       \/ \A g \in GuestIdInputs :
              Cardinality(ActiveOf(g)) > 1
              => \A sv \in ServiceIdInputs :
                     (ServiceOutcome(g, sv) = "ok" /\ restaurant_services(g, sv)) => C37_Billed(g)]_vars

(* Two active bookings of one guest, on rooms 101 and 401, the first with *)
(* the order on its bill and the second at its room charge.               *)
C37_Witness ==
    /\ Len(bookings) = 2
    /\ orders = 1
    /\ bookings[1].guest_id = bookings[2].guest_id
    /\ bookings[1].status \in {"CONFIRMED", "CHECKED_IN"}
    /\ bookings[2].status \in {"CONFIRMED", "CHECKED_IN"}
    /\ bookings[1].room_number = "101" /\ bookings[1].total_amount = 7500 + 500
    /\ bookings[2].room_number = "401" /\ bookings[2].total_amount = 45000

C38_ByService(i) ==
    /\ bookings[i].status \in {"CONFIRMED", "CHECKED_IN"}
    /\ bookings'[i].total_amount = bookings[i].total_amount + 500
    /\ \E g \in GuestIdInputs, sv \in ServiceIdInputs :
           /\ ServiceOutcome(g, sv) = "ok"
           /\ bookings[i].guest_id = g
           /\ restaurant_services(g, sv)

(* C38: the total_amount of an existing booking changes only in a          *)
(* restaurant_services step for the booking's guest, taken while the       *)
(* booking is CONFIRMED or CHECKED_IN, which adds the price of the         *)
(* service.  update_room_details, vip_management, the promotion at         *)
(* check-out, check_in, check_out, cancel_booking and process_payment      *)
(* leave every total_amount as it is, and the total_amount of a            *)
(* CHECKED_OUT or CANCELLED booking never changes.                         *)
C38_AmountFixed ==
    [][\/ bookings' = bookings
       \/ \A i \in DOMAIN bookings :
              /\ i \in DOMAIN bookings'
              /\ bookings'[i].total_amount # bookings[i].total_amount => C38_ByService(i)]_vars

(* A booking made at 2500 a night for a guest who was not VIP, still at *)
(* 7500 after room 101 was repriced to 16500 and the guest made VIP.    *)
C38_Witness ==
    \E i \in DOMAIN bookings :
        /\ bookings[i].room_number = "101"
        /\ bookings[i].status \in {"CONFIRMED", "CHECKED_IN"}
        /\ bookings[i].total_amount = 7500
        /\ rooms[FindRoom(rooms, "101")].price = 16500
        /\ guests[FindGuest(guests, bookings[i].guest_id)].vip_status

CheckedOutOf(guest_id) ==
    {i \in DOMAIN bookings : bookings[i].guest_id = guest_id /\ bookings[i].status = "CHECKED_OUT"}

(* C39: for every guest, total_stays is the number of the guest's bookings *)
(* that are CHECKED_OUT.                                                   *)
C39_StaysAreCompletedBookings ==
    \A g \in DOMAIN guests :
        guests[g].total_stays = Cardinality(CheckedOutOf(guests[g].guest_id))

(* A guest with two stays completed, next to a guest with none. *)
C39_Witness ==
    \E g, h \in DOMAIN guests :
        /\ guests[g].total_stays = 2
        /\ Cardinality(CheckedOutOf(guests[g].guest_id)) = 2
        /\ g # h
        /\ guests[h].total_stays = 0

C40_Flag(g) ==
    /\ (guests[g].total_spent > 50000 /\ ~guests[g].vip_status) => guests'[g].vip_status
    /\ guests[g].vip_status => guests'[g].vip_status
    /\ guests'[g].vip_status <=> (guests[g].vip_status \/ guests'[g].total_spent > 50000)

(* C40: every check_out that finds the booking CHECKED_IN tests the        *)
(* guest's total_spent, the stay included, against 50000: a guest whose    *)
(* total was already above 50000 and whose VIP flag had been removed by    *)
(* hand is VIP again after it, a guest who is VIP stays VIP whatever the   *)
(* total, and the flag afterwards is true exactly if it was true before or *)
(* the new total is above 50000.                                           *)
C40_VipReevaluatedAtCheckOut ==
    [][\/ guests' = guests
       \/ \A g \in DOMAIN guests : CheckOutOf(g, {"ok", "Error"}) => C40_Flag(g)]_vars

(* Two stays on room 101 at 20000 a night: the second was booked at the  *)
(* full 60000, so the flag raised by the first check-out had been taken  *)
(* away by then, and the guest is VIP after the second check-out.        *)
C40_Witness ==
    /\ Len(bookings) = 2
    /\ bookings[1].guest_id = bookings[2].guest_id
    /\ bookings[1].room_number = "101" /\ bookings[2].room_number = "101"
    /\ bookings[1].status = "CHECKED_OUT" /\ bookings[2].status = "CHECKED_OUT"
    /\ bookings[1].total_amount = 60000 /\ bookings[2].total_amount = 60000
    /\ LET g == FindGuest(guests, bookings[1].guest_id) IN
           guests[g].vip_status /\ guests[g].total_spent = 120000

====
